---- MODULE Spec2Model ----
(***************************************************************************)
(* fleetmux: the host resolver (src/ssh.rs), the poll supervisor           *)
(* (src/poller.rs), the pane store (src/model.rs) and the consumer loop    *)
(* that owns them (src/main.rs).                                           *)
(*                                                                         *)
(* Time is a discrete clock `now` (seconds).  A tokio task is modelled by  *)
(* its position between two await points; the synchronous code between two *)
(* awaits is one atomic step.                                              *)
(***************************************************************************)
EXTENDS Integers, Sequences, FiniteSets, TLC

\* ---------------------------------------------------------------- bounds
NPanes == 2          \* tracked panes per configuration
MaxTime == 60        \* the clock stops advancing here
TickStep == 30       \* granularity of the clock
SinkCap == 2         \* capacity of the update channel (scaled down from 100)
Refresh == 15        \* config.ui.refresh_ms, in units of the clock
MaxLines == 2        \* lines of a capture that is hashed
MaxLineLen == 2      \* bytes of such a line
MaxOut == 5          \* bytes of a remote output that is parsed
MaxRows == 2         \* lines of a pane or window list that is parsed
MaxGrid == 7         \* panes of a dashboard whose focus is moved
MaxPending == 3      \* preview requests not yet answered or handled

\* ------------------------------------------------------ program constants
CACHE_TTL == 60

None == "none"                         \* an absent string
Nothing == << >>                      \* Option::None of a structured value
Some(x) == << x >>                    \* Option::Some(x)
Get(o) == o[1]
MainId == 0 - 1                       \* the consumer task as a resolver caller
Nobody == 0 - 2                       \* the resolver mutex is free
PaneIds(n) == 0 .. (n - 1)            \* pane index = loop index (enumerate())

Targets == {"a", "b", "c"}
HostNames == {"h1", "h2", "h3"}

\* config.hosts values explored: ordered candidate lists, one empty list;
\* the second configuration drops an address of h1 and all of h2, and h3
HostsA == << [name |-> "h1", targets |-> <<"a", "b">>],
             [name |-> "h2", targets |-> <<"c">>],
             [name |-> "h3", targets |-> << >>] >>
HostsB == << [name |-> "h1", targets |-> <<"b">>],
             [name |-> "h2", targets |-> << >>] >>
HostConfigs == {HostsA, HostsB}

\* config.tracked values explored: the host name of each tracked pane;
\* "hx" names a host that is absent from config.hosts
SameHost(n) == [i \in PaneIds(n) |-> "h1"]
TwoHosts(n) == [i \in PaneIds(n) |-> IF i % 2 = 0 THEN "h1" ELSE "h2"]
LostHost(n) == [i \in PaneIds(n) |-> IF i % 2 = 0 THEN "h3" ELSE "hx"]
TrackedOfLen(n) == {SameHost(n), TwoHosts(n), LostHost(n)}
\* the tracked lists a configuration file is taken from: at start the full
\* length, after a reload a shorter list or none
TrackedConfigs == TrackedOfLen(NPanes)
ReloadConfigs == TrackedOfLen(NPanes - 1) \cup TrackedOfLen(0)

VARIABLES
  now,       \* Instant::now()
  reach,     \* targets on which the probe `tmux -V` currently succeeds
  hosts,     \* config.hosts
  tracked,   \* config.tracked (host name per pane index)
  cache,     \* HostResolver.cache: host name -> CacheEntry or None
  holder,    \* owner of the Mutex<HostResolver> guard, or None
  pc,        \* position of each polling loop
  at,        \* `now` local of each loop (poller.rs:43)
  rpos,      \* per caller: position in host.targets of the probe in flight
  rlog,      \* per caller: probes (target, outcome) of its current resolve call
  rres,      \* per caller: result of its last resolve call
  upd,       \* the PaneUpdate a loop is about to send
  signal,    \* per loop: a shutdown message is pending in its receiver
  sink,      \* the mpsc channel of PaneUpdate
  mainpc,    \* position of the consumer task (main)
  joinIdx,   \* stop(): index of the task being awaited
  postStop,  \* per loop: updates sent since stop() broadcast the signal
  focused,   \* AppState.focused
  screen,    \* per tracked pane: what the remote pane currently shows
  panes,     \* AppState.panes
  emitted,   \* per pane index: the updates sent and not yet applied, oldest first
  stale,     \* updates at the head of the channel sent by replaced pollers
  setup,     \* SetupState: the preview and host data of the selection screen
  arg,       \* the arguments of a call of a pure function
  ret        \* its result

LoopIds == DOMAIN tracked             \* one loop per tracked pane
Callers == LoopIds \cup {MainId}
NumPanes == Cardinality(LoopIds)      \* panes.len(), tasks.len()

vars == << now, reach, hosts, tracked, cache, holder, pc, at, rpos, rlog, rres,
           upd, signal, sink, mainpc, joinIdx, postStop, focused, screen,
           panes, emitted, stale, setup, arg, ret >>

\* ------------------------------------------------------------- helpers

RECURSIVE FindFrom(_, _, _)
FindFrom(hs, name, k) ==
  IF k > Len(hs) THEN Nothing
  ELSE IF hs[k].name = name THEN Some(hs[k])
  ELSE FindFrom(hs, name, k + 1)

\* config.hosts.iter().find(|h| h.name == name).cloned()
FindHost(hs, name) == FindFrom(hs, name, 1)

\* the host captured by loop i when it was spawned
LoopHost(i) == FindHost(hosts, tracked[i])

\* variant: an entry whose age equals the TTL is still used
EntryFreshInclusive(entry) == now - entry.checked_at <= CACHE_TTL

\* entry.checked_at.elapsed() < CACHE_TTL
EntryFresh(entry) == now - entry.checked_at < CACHE_TTL

CacheHit(h) == cache[h.name] # Nothing /\ EntryFresh(Get(cache[h.name]))

\* test_target(target).is_ok()
ProbeOk(t) == t \in reach

NoResult == [kind |-> "none", target |-> None]
OkResult(t) == [kind |-> "ok", target |-> t]
ErrResult(h) == [kind |-> "err", target |-> h.name]

\* variant: a failure is stamped with the time the program started
DownUpdateUnstamped(i, err) ==
  [index |-> i, status |-> "Down", capture |-> Nothing, error |-> err,
   at |-> 0]

DownUpdate(i, err) ==
  [index |-> i, status |-> "Down", capture |-> Nothing, error |-> err,
   at |-> at[i]]
\* variant: the timestamp is taken when the update is built
OkUpdateStampedLate(i, c) ==
  [index |-> i, status |-> "Ok", capture |-> Some(c), error |-> None,
   at |-> now]

OkUpdate(i, c) ==
  [index |-> i, status |-> "Ok", capture |-> Some(c), error |-> None,
   at |-> at[i]]

\* ------------------------------------------------- the store (model.rs)

\* a u64 is four 16-bit limbs, least significant first
Limb == 65536
FnvOffset == << 8997, 33826, 40164, 52210 >>     \* 0xcbf29ce484222325

RECURSIVE BitXor(_, _)
BitXor(a, b) ==
  IF a = 0 THEN b
  ELSE IF b = 0 THEN a
  ELSE (((a % 2) + (b % 2)) % 2) + 2 * BitXor(a \div 2, b \div 2)

\* hash ^= byte
XorByte(h, byte) == << BitXor(h[1], byte), h[2], h[3], h[4] >>

\* hash.wrapping_mul(0x100000001b3): the prime is 2^40 + 435
MulPrime(h) ==
  LET c0 == h[1] * 435
      c1 == (h[2] * 435) + (c0 \div Limb)
      c2 == (h[3] * 435) + (h[1] * 256) + (c1 \div Limb)
      c3 == (h[4] * 435) + (h[2] * 256) + (c2 \div Limb)
  IN << c0 % Limb, c1 % Limb, c2 % Limb, c3 % Limb >>

\* one round of FNV-1a
FnvByte(h, byte) == MulPrime(XorByte(h, byte))

RECURSIVE FnvBytes(_, _, _)
FnvBytes(h, bytes, k) ==
  IF k > Len(bytes) THEN h ELSE FnvBytes(FnvByte(h, bytes[k]), bytes, k + 1)

RECURSIVE FnvLines(_, _, _)
FnvLines(h, lines, k) ==
  IF k > Len(lines) THEN h
  ELSE FnvLines(FnvByte(FnvBytes(h, lines[k], 1), 10), lines, k + 1)

\* variant: only the first line and the command are hashed
hash_capture_first_line(capture) ==
  FnvBytes(FnvLines(FnvOffset, IF capture.lines = << >> THEN << >>
                               ELSE << capture.lines[1] >>, 1),
           capture.command, 1)

\* model.rs:224-240: every line followed by a newline, then the command
hash_capture(capture) ==
  FnvBytes(FnvLines(FnvOffset, capture.lines, 1), capture.command, 1)

\* PaneState::new
NewPane(host) ==
  [tracked |-> host, status |-> "Stale", last_capture |-> Nothing,
   last_update |-> Nothing, last_change |-> Nothing, error |-> None,
   last_hash |-> Nothing]

\* variant: the panes are created in reverse order
NewPanesReversed(tr) ==
  [i \in DOMAIN tr |-> NewPane(tr[Cardinality(DOMAIN tr) - 1 - i])]

\* AppState::new: one PaneState per tracked pane, in order
NewPanes(tr) == [i \in DOMAIN tr |-> NewPane(tr[i])]

\* variant: every capture counts as a change
HashDiffersAlways(pane, new_hash) == TRUE

\* pane.last_hash.map(|h| h != new_hash).unwrap_or(true)
HashDiffers(pane, new_hash) ==
  IF pane.last_hash = Nothing THEN TRUE ELSE Get(pane.last_hash) # new_hash

\* variant: a failure clears the stored capture
ApplyToPaneClearing(pane, update) ==
  LET p1 == [pane EXCEPT !.status = update.status,
                         !.error = update.error,
                         !.last_update = Some(update.at)]
  IN IF update.capture = Nothing
       THEN [p1 EXCEPT !.last_capture = Nothing, !.last_hash = Nothing]
       ELSE LET new_hash == hash_capture(Get(update.capture))
            IN [p1 EXCEPT !.last_change =
                            IF HashDiffers(pane, new_hash) THEN Some(update.at)
                            ELSE @,
                          !.last_hash = Some(new_hash),
                          !.last_capture = update.capture]

\* variant: a Down update does not override an Ok pane
ApplyToPaneKeepOk(pane, update) ==
  LET p1 == [pane EXCEPT !.status = IF pane.status = "Ok" THEN "Ok"
                                    ELSE update.status,
                         !.error = update.error,
                         !.last_update = Some(update.at)]
  IN IF update.capture = Nothing THEN p1
     ELSE LET new_hash == hash_capture(Get(update.capture))
          IN [p1 EXCEPT !.last_change =
                          IF HashDiffers(pane, new_hash) THEN Some(update.at)
                          ELSE @,
                        !.last_hash = Some(new_hash),
                        !.last_capture = update.capture]

\* variant: an update without an error keeps the error stored before
ApplyToPaneKeepError(pane, update) ==
  LET p1 == [pane EXCEPT !.status = update.status,
                         !.error = IF update.error = None THEN @
                                   ELSE update.error,
                         !.last_update = Some(update.at)]
  IN IF update.capture = Nothing THEN p1
     ELSE LET new_hash == hash_capture(Get(update.capture))
          IN [p1 EXCEPT !.last_change =
                          IF HashDiffers(pane, new_hash) THEN Some(update.at)
                          ELSE @,
                        !.last_hash = Some(new_hash),
                        !.last_capture = update.capture]

\* variant: a failure counts as a change of the pane
ApplyToPaneChangeOnDown(pane, update) ==
  LET p1 == [pane EXCEPT !.status = update.status,
                         !.error = update.error,
                         !.last_update = Some(update.at)]
  IN IF update.capture = Nothing
       THEN [p1 EXCEPT !.last_change = Some(update.at)]
       ELSE LET new_hash == hash_capture(Get(update.capture))
            IN [p1 EXCEPT !.last_change =
                            IF HashDiffers(pane, new_hash) THEN Some(update.at)
                            ELSE @,
                          !.last_hash = Some(new_hash),
                          !.last_capture = update.capture]

\* model.rs:158-168: the body of apply_update for the pane found
ApplyToPane(pane, update) ==
  LET p1 == [pane EXCEPT !.status = update.status,
                         !.error = update.error,
                         !.last_update = Some(update.at)]
  IN IF update.capture = Nothing THEN p1
     ELSE LET new_hash == hash_capture(Get(update.capture))
          IN [p1 EXCEPT !.last_change =
                          IF HashDiffers(pane, new_hash) THEN Some(update.at)
                          ELSE @,
                        !.last_hash = Some(new_hash),
                        !.last_capture = update.capture]

\* variant: a failure of one pane marks every pane Down
apply_update_spread(ps, update) ==
  IF update.index \in DOMAIN ps
  THEN [j \in DOMAIN ps |->
          IF j = update.index THEN ApplyToPane(ps[j], update)
          ELSE IF update.status = "Down"
               THEN [ps[j] EXCEPT !.status = "Down", !.error = update.error]
               ELSE ps[j]]
  ELSE ps

\* variant: an index past the end is clamped to the last pane
apply_update_clamped(ps, update) ==
  IF update.index \in DOMAIN ps
  THEN [ps EXCEPT ![update.index] = ApplyToPane(@, update)]
  ELSE IF DOMAIN ps = {} THEN ps
  ELSE [ps EXCEPT ![Cardinality(DOMAIN ps) - 1] = ApplyToPane(@, update)]

\* model.rs:156-170: nothing happens when the index is out of range
apply_update(ps, update) ==
  IF update.index \in DOMAIN ps
  THEN [ps EXCEPT ![update.index] = ApplyToPane(@, update)]
  ELSE ps

\* self.config.ui.refresh_ms.saturating_mul(2)
StaleAfter == 2 * Refresh

\* variant: an age equal to the threshold is stale
SweepPaneInclusive(pane, t) ==
  IF pane.status = "Down" THEN pane
  ELSE IF pane.last_update = Nothing THEN [pane EXCEPT !.status = "Stale"]
  ELSE IF t - Get(pane.last_update) >= StaleAfter
       THEN [pane EXCEPT !.status = "Stale"]
  ELSE [pane EXCEPT !.status = "Ok"]

\* variant: the sweep also ages Down panes
SweepPaneAll(pane, t) ==
  IF pane.last_update = Nothing THEN [pane EXCEPT !.status = "Stale"]
  ELSE IF t - Get(pane.last_update) > StaleAfter
       THEN [pane EXCEPT !.status = "Stale"]
  ELSE [pane EXCEPT !.status = "Ok"]

\* variant: a pane that was never updated counts as fresh
SweepPaneUnseenOk(pane, t) ==
  IF pane.status = "Down" THEN pane
  ELSE IF pane.last_update = Nothing THEN [pane EXCEPT !.status = "Ok"]
  ELSE IF t - Get(pane.last_update) > StaleAfter
       THEN [pane EXCEPT !.status = "Stale"]
  ELSE [pane EXCEPT !.status = "Ok"]

\* variant: a pane found Stale is given another interval
SweepPaneForgiving(pane, t) ==
  IF pane.status = "Down" THEN pane
  ELSE IF pane.last_update = Nothing THEN [pane EXCEPT !.status = "Stale"]
  ELSE IF pane.status = "Stale" THEN [pane EXCEPT !.status = "Ok"]
  ELSE IF t - Get(pane.last_update) > StaleAfter
       THEN [pane EXCEPT !.status = "Stale"]
  ELSE [pane EXCEPT !.status = "Ok"]

\* model.rs:176-189: what the sweep does to one pane at time t
SweepPane(pane, t) ==
  IF pane.status = "Down" THEN pane
  ELSE IF pane.last_update = Nothing THEN [pane EXCEPT !.status = "Stale"]
  ELSE IF t - Get(pane.last_update) > StaleAfter
       THEN [pane EXCEPT !.status = "Stale"]
  ELSE [pane EXCEPT !.status = "Ok"]

\* model.rs:172-191
refresh_stale(ps, t) == [i \in DOMAIN ps |-> SweepPane(ps[i], t)]

\* variant: the idle threshold is tested first
activity_state_idle_first(last_change, t, active_window, idle_after) ==
  IF last_change = Nothing THEN "Quiet"
  ELSE LET age == t - Get(last_change)
       IN IF age >= idle_after THEN "Idle"
          ELSE IF age <= active_window THEN "Active"
          ELSE "Quiet"

\* model.rs:53-69, with last.elapsed() = t - last
activity_state(last_change, t, active_window, idle_after) ==
  IF last_change = Nothing THEN "Quiet"
  ELSE LET age == t - Get(last_change)
       IN IF age <= active_window THEN "Active"
          ELSE IF age >= idle_after THEN "Idle"
          ELSE "Quiet"

\* model.rs:104-113: PaneState::activity_state
pane_activity_state(pane, t, active_window, idle_after) ==
  IF pane.status # "Ok" THEN "Quiet"
  ELSE activity_state(pane.last_change, t, active_window, idle_after)

\* ---------------------------------------------------------------- Init

\* contents a pane can show (strings as byte sequences): OutB has one more
\* line than OutA, OutT differs from OutA in the title only
OutA == [command |-> << 118 >>, title |-> "t1", lines |-> << << 36 >> >>]
OutB == [command |-> << 118 >>, title |-> "t1",
         lines |-> << << 36 >>, << 35 >> >>]
OutT == [command |-> << 118 >>, title |-> "t2", lines |-> << << 36 >> >>]
Captures == {OutA, OutB, OutT}
\* what capture_pane finds: a capture, or nothing (the command fails)
Screens == {Some(c) : c \in Captures} \cup {Nothing}

\* ------------------------------------- the selection screen (setup.rs)

\* PaneKey values of panes that can be previewed, and their hosts
PreviewKeys == {"k1", "k2", "k3"}
SetupHosts == {"h1", "h2"}
KeyHost(k) == IF k = "k3" THEN "h2" ELSE "h1"
\* what a preview task captures, and the errors it can meet
Outputs == {"o1", "o2"}
Failures == {"e1"}

\* the text shown for a message: the output, or
\* format!("Preview error: {error}")
PreviewText(msg) ==
  IF msg.kind = "PreviewLoaded" THEN << msg.body >>
  ELSE << "Preview error: ", msg.body >>

\* variant: a preview response is shown whatever its key
handle_message_any_key(st, msg) ==
  CASE msg.kind = "HostLoaded" ->
         [st EXCEPT !.host_data[msg.key] = "loaded"]
    [] msg.kind = "HostError" ->
         [st EXCEPT !.host_data[msg.key] = "error"]
    [] OTHER ->
         [st EXCEPT !.preview = Some(PreviewText(msg)),
                    !.preview_loading = FALSE]

\* setup.rs:172-199: one iteration of the loop of handle_messages
handle_message(st, msg) ==
  CASE msg.kind = "HostLoaded" ->
         [st EXCEPT !.host_data[msg.key] = "loaded"]
    [] msg.kind = "HostError" ->
         [st EXCEPT !.host_data[msg.key] = "error"]
    [] OTHER ->
         IF st.preview_key = Some(msg.key)
         THEN [st EXCEPT !.preview = Some(PreviewText(msg)),
                         !.preview_loading = FALSE]
         ELSE st

\* setup.rs:170-201: while let Ok(msg) = self.msg_rx.try_recv()
RECURSIVE handle_messages(_, _)
handle_messages(st, q) ==
  IF q = << >> THEN st
  ELSE handle_messages(handle_message(st, Head(q)), Tail(q))

\* SetupState::new (setup.rs:127-168): no preview, and ensure_host_loaded
\* has started loading the first host
SetupNew ==
  [preview |-> Nothing, preview_key |-> Nothing, preview_loading |-> FALSE,
   host_data |-> [h \in SetupHosts |-> IF h = "h1" THEN "loading" ELSE "absent"],
   loads |-> {"h1"},
   tasks |-> [k \in PreviewKeys |-> 0],
   msgs |-> << >>]

\* the state right after start_pollers (main.rs:32-34) for a configuration
Started(tr) ==
  /\ tracked = tr
  /\ pc = [i \in DOMAIN tr |-> "start"]
  /\ at = [i \in DOMAIN tr |-> 0]
  /\ upd = [i \in DOMAIN tr |-> Nothing]
  /\ signal = [i \in DOMAIN tr |-> FALSE]
  /\ postStop = [i \in DOMAIN tr |-> 0]
  /\ rpos = [c \in DOMAIN tr \cup {MainId} |-> 0]
  /\ rlog = [c \in DOMAIN tr \cup {MainId} |-> << >>]
  /\ rres = [c \in DOMAIN tr \cup {MainId} |-> NoResult]
  /\ focused = 0
  /\ screen = [i \in DOMAIN tr |-> Some(OutA)]
  /\ panes = NewPanes(tr)

\* the same, as the effect of start_pollers during a reload
Restarted(tr) ==
  /\ tracked' = tr
  /\ pc' = [i \in DOMAIN tr |-> "start"]
  /\ at' = [i \in DOMAIN tr |-> 0]
  /\ upd' = [i \in DOMAIN tr |-> Nothing]
  /\ signal' = [i \in DOMAIN tr |-> FALSE]
  /\ postStop' = [i \in DOMAIN tr |-> 0]
  /\ rpos' = [c \in DOMAIN tr \cup {MainId} |-> 0]
  /\ rlog' = [c \in DOMAIN tr \cup {MainId} |-> << >>]
  /\ rres' = [c \in DOMAIN tr \cup {MainId} |-> NoResult]
  /\ focused' = 0
  /\ screen' = [i \in DOMAIN tr |-> Some(OutA)]
  /\ panes' = NewPanes(tr)

RECURSIVE TargetsFrom(_, _)
TargetsFrom(ts, k) ==
  IF k > Len(ts) THEN {} ELSE {ts[k]} \cup TargetsFrom(ts, k + 1)

\* the candidate targets of the hosts that a tracked list names
UsedTargets(hs, tr) ==
  UNION { IF FindHost(hs, tr[i]) = Nothing THEN {}
          ELSE TargetsFrom(Get(FindHost(hs, tr[i])).targets, 1) : i \in DOMAIN tr }

InitWith(trs) ==
  /\ now = 0
  /\ hosts = HostsA
  /\ \E tr \in trs : Started(tr)
  /\ cache = [h \in HostNames |-> Nothing]
  /\ holder = Nobody
  /\ sink = << >>
  /\ mainpc = "select"
  /\ joinIdx = 0
  /\ emitted = [i \in PaneIds(NPanes) |-> << >>]
  /\ stale = 0
  /\ setup = SetupNew
  /\ arg = Nothing
  /\ ret = Nothing

\* at start either every configured address answers or none does
Init ==
  /\ InitWith(TrackedConfigs)
  /\ reach \in {{}, UsedTargets(hosts, tracked)}

\* a single tracked pane: the loop and take_control share the resolver
InitResolve ==
  /\ InitWith(TrackedOfLen(1))
  /\ reach \in {{}, UsedTargets(hosts, tracked)}

\* ------------------------------------------------- HostResolver (ssh.rs)

\* variant: a cache hit refreshes the entry's timestamp
ResolveEnterRefresh(c, h) ==
  /\ rlog' = [rlog EXCEPT ![c] = << >>]
  /\ IF CacheHit(h)
       THEN /\ rres' = [rres EXCEPT ![c] = OkResult(Get(cache[h.name]).target)]
            /\ rpos' = [rpos EXCEPT ![c] = 0]
            /\ holder' = Nobody
            /\ cache' = [cache EXCEPT ![h.name] =
                           Some([target |-> Get(@).target, checked_at |-> now])]
       ELSE IF Len(h.targets) = 0
       THEN /\ rres' = [rres EXCEPT ![c] = ErrResult(h)]
            /\ rpos' = [rpos EXCEPT ![c] = 0]
            /\ holder' = Nobody
            /\ cache' = cache
       ELSE /\ rres' = [rres EXCEPT ![c] = NoResult]
            /\ rpos' = [rpos EXCEPT ![c] = 1]
            /\ holder' = c
            /\ cache' = cache

\* resolve_target up to its first await: the cache lookup (ssh.rs:29-33),
\* then either the first probe is started or, with no candidate, the error
\* is returned.  The caller has just acquired the guard; it keeps it while a
\* probe is in flight and drops it when resolve_target returns.
ResolveEnter(c, h) ==
  /\ rlog' = [rlog EXCEPT ![c] = << >>]
  /\ cache' = cache
  /\ IF CacheHit(h)
       THEN /\ rres' = [rres EXCEPT ![c] = OkResult(Get(cache[h.name]).target)]
            /\ rpos' = [rpos EXCEPT ![c] = 0]
            /\ holder' = Nobody
       ELSE IF Len(h.targets) = 0
       THEN /\ rres' = [rres EXCEPT ![c] = ErrResult(h)]
            /\ rpos' = [rpos EXCEPT ![c] = 0]
            /\ holder' = Nobody
       ELSE /\ rres' = [rres EXCEPT ![c] = NoResult]
            /\ rpos' = [rpos EXCEPT ![c] = 1]
            /\ holder' = c

\* variant: the candidates are tried from the last one
ProbeReturnLastFirst(c, h) ==
  LET t == h.targets[Len(h.targets) + 1 - rpos[c]] IN
  /\ rlog' = [rlog EXCEPT ![c] = Append(@, [target |-> t, ok |-> ProbeOk(t)])]
  /\ IF ProbeOk(t)
       THEN /\ cache' = [cache EXCEPT ![h.name] =
                           Some([target |-> t, checked_at |-> now])]
            /\ rres' = [rres EXCEPT ![c] = OkResult(t)]
            /\ rpos' = [rpos EXCEPT ![c] = 0]
            /\ holder' = Nobody
       ELSE IF rpos[c] < Len(h.targets)
       THEN /\ rpos' = [rpos EXCEPT ![c] = @ + 1]
            /\ UNCHANGED << cache, rres, holder >>
       ELSE /\ rres' = [rres EXCEPT ![c] = ErrResult(h)]
            /\ rpos' = [rpos EXCEPT ![c] = 0]
            /\ UNCHANGED cache
            /\ holder' = Nobody

\* variant: a failed resolution drops the host's entry
ProbeReturnEvict(c, h) ==
  LET t == h.targets[rpos[c]] IN
  /\ rlog' = [rlog EXCEPT ![c] = Append(@, [target |-> t, ok |-> ProbeOk(t)])]
  /\ IF ProbeOk(t)
       THEN /\ cache' = [cache EXCEPT ![h.name] =
                           Some([target |-> t, checked_at |-> now])]
            /\ rres' = [rres EXCEPT ![c] = OkResult(t)]
            /\ rpos' = [rpos EXCEPT ![c] = 0]
            /\ holder' = Nobody
       ELSE IF rpos[c] < Len(h.targets)
       THEN /\ rpos' = [rpos EXCEPT ![c] = @ + 1]
            /\ UNCHANGED << cache, rres, holder >>
       ELSE /\ rres' = [rres EXCEPT ![c] = ErrResult(h)]
            /\ rpos' = [rpos EXCEPT ![c] = 0]
            /\ cache' = [cache EXCEPT ![h.name] = Nothing]
            /\ holder' = Nobody

\* the probe in flight returns (ssh.rs:35-48): on success the entry is
\* written and the target returned, otherwise the next candidate is probed
\* or, after the last one, the error is returned
ProbeReturn(c, h) ==
  LET t == h.targets[rpos[c]] IN
  /\ rlog' = [rlog EXCEPT ![c] = Append(@, [target |-> t, ok |-> ProbeOk(t)])]
  /\ IF ProbeOk(t)
       THEN /\ cache' = [cache EXCEPT ![h.name] =
                           Some([target |-> t, checked_at |-> now])]
            /\ rres' = [rres EXCEPT ![c] = OkResult(t)]
            /\ rpos' = [rpos EXCEPT ![c] = 0]
            /\ holder' = Nobody
       ELSE IF rpos[c] < Len(h.targets)
       THEN /\ rpos' = [rpos EXCEPT ![c] = @ + 1]
            /\ UNCHANGED << cache, rres, holder >>
       ELSE /\ rres' = [rres EXCEPT ![c] = ErrResult(h)]
            /\ rpos' = [rpos EXCEPT ![c] = 0]
            /\ UNCHANGED cache
            /\ holder' = Nobody

\* the host a caller resolves: the loop's host, or the focused pane's host
CallerHost(c) == IF c = MainId THEN Get(FindHost(hosts, tracked[focused]))
                 ELSE Get(FindHost(hosts, tracked[c]))

\* the name of the host a caller's pane is tracked on
HostNameOf(c) == IF c = MainId THEN tracked[focused] ELSE tracked[c]

\* variant: one lock per host
LockFreePerHost(c) ==
  \/ holder = Nobody
  \/ holder \in Callers /\ HostNameOf(holder) # HostNameOf(c)

\* variant: the lock is not exclusive
LockFreeAlways(c) == TRUE

\* resolver.lock().await completes only when no guard is alive
LockFree(c) == holder = Nobody

\* ------------------------------------------- polling loops (poller.rs)

Running == mainpc # "exited"

UNCHANGED_env == UNCHANGED << now, reach, hosts, tracked, screen, arg, ret >>
UNCHANGED_main == UNCHANGED << mainpc, joinIdx, focused >>

\* variant: a loop whose host is not configured gives up
BeginPollQuitUnknown(i) ==
  /\ at' = [at EXCEPT ![i] = now]
  /\ upd' = upd
  /\ pc' = [pc EXCEPT ![i] = IF LoopHost(i) = Nothing THEN "done" ELSE "lock"]

\* top of the loop (poller.rs:43-45 and 77-83): the timestamp is taken and
\* the pane's host looked at; with no host the update is ready at once
BeginPoll(i) ==
  /\ at' = [at EXCEPT ![i] = now]
  /\ IF LoopHost(i) = Nothing
       THEN /\ upd' = [upd EXCEPT ![i] =
                         Some([index |-> i, status |-> "Down", capture |-> Nothing,
                               error |-> "Unknown host", at |-> now])]
            /\ pc' = [pc EXCEPT ![i] = "send"]
       ELSE /\ upd' = upd
            /\ pc' = [pc EXCEPT ![i] = "lock"]

\* poller.rs:41-43: the spawned task runs for the first time
Start(i) ==
  /\ Running /\ pc[i] = "start"
  /\ BeginPoll(i)
  /\ UNCHANGED << cache, holder, rpos, rlog, rres, signal, sink, panes,
                  emitted, stale, setup, postStop >>
  /\ UNCHANGED_env /\ UNCHANGED_main

\* variant: a failed resolve is followed by the capture all the same
AfterResolveCapturing(i) ==
  IF rres'[i].kind = "none"
  THEN /\ pc' = [pc EXCEPT ![i] = "probe"]
       /\ upd' = upd
  ELSE /\ pc' = [pc EXCEPT ![i] = "capture"]
       /\ upd' = upd

\* what the loop does with the result of resolve_target (poller.rs:51,68-74)
AfterResolve(i) ==
  IF rres'[i].kind = "none"
  THEN /\ pc' = [pc EXCEPT ![i] = "probe"]
       /\ upd' = upd
  ELSE IF rres'[i].kind = "ok"
  THEN /\ pc' = [pc EXCEPT ![i] = "capture"]
       /\ upd' = upd
  ELSE /\ pc' = [pc EXCEPT ![i] = "send"]
       /\ upd' = [upd EXCEPT ![i] = Some(DownUpdate(i, "No reachable targets"))]

\* poller.rs:47-48: the guard is acquired and resolve_target entered
Lock(i) ==
  /\ Running /\ pc[i] = "lock"
  /\ LockFree(i)
  /\ ResolveEnter(i, Get(LoopHost(i)))
  /\ AfterResolve(i)
  /\ UNCHANGED << at, signal, sink, panes, emitted, stale, setup, postStop >>
  /\ UNCHANGED_env /\ UNCHANGED_main

\* poller.rs:48: a probe of the loop's resolve call returns
Probe(i) ==
  /\ Running /\ pc[i] = "probe"
  /\ ProbeReturn(i, Get(LoopHost(i)))
  /\ AfterResolve(i)
  /\ UNCHANGED << at, signal, sink, panes, emitted, stale, setup, postStop >>
  /\ UNCHANGED_env /\ UNCHANGED_main

\* variant: a failed capture drops the host's cache entry
CaptureEvicting(i) ==
  /\ Running /\ pc[i] = "capture"
  /\ upd' = [upd EXCEPT ![i] =
                IF screen[i] = Nothing
                THEN Some(DownUpdate(i, "capture-pane failed"))
                ELSE Some(OkUpdate(i, Get(screen[i])))]
  /\ cache' = IF screen[i] = Nothing
              THEN [cache EXCEPT ![tracked[i]] = Nothing] ELSE cache
  /\ pc' = [pc EXCEPT ![i] = "send"]
  /\ rres' = [rres EXCEPT ![i] = NoResult]
  /\ rlog' = [rlog EXCEPT ![i] = << >>]
  /\ at' = [at EXCEPT ![i] = 0]
  /\ UNCHANGED << holder, rpos, signal, sink, panes, emitted, stale, setup,
                  postStop >>
  /\ UNCHANGED_env /\ UNCHANGED_main

\* poller.rs:52-67: capture_pane returns what the pane shows, or an error
Capture(i) ==
  /\ Running /\ pc[i] = "capture"
  /\ upd' = [upd EXCEPT ![i] =
                IF screen[i] = Nothing
                THEN Some(DownUpdate(i, "capture-pane failed"))
                ELSE Some(OkUpdate(i, Get(screen[i])))]
  /\ pc' = [pc EXCEPT ![i] = "send"]
  /\ rres' = [rres EXCEPT ![i] = NoResult]
  /\ rlog' = [rlog EXCEPT ![i] = << >>]
  /\ at' = [at EXCEPT ![i] = 0]
  /\ UNCHANGED << cache, holder, rpos, signal, sink, panes, emitted, stale, setup,
                  postStop >>
  /\ UNCHANGED_env /\ UNCHANGED_main

\* variant: a cycle that ended in an error ends the loop
FirstPollQuitOnError(i) ==
  IF signal[i] \/ Get(upd[i]).status = "Down" THEN "done" ELSE "wait"

\* the first poll of the select! (poller.rs:88-91) right after the send:
\* the sleep was just created and cannot have elapsed, so a pending
\* shutdown message is taken
FirstPoll(i) == IF signal[i] THEN "done" ELSE "wait"

\* variant: the channel grows without limit
SendReadyAlways(i) == TRUE

\* variant: a waiting sender with a lower index is always served first
SendReadyLowestFirst(i) ==
  /\ Len(sink) < SinkCap
  /\ \A j \in LoopIds : j < i => pc[j] # "send"

\* mpsc::channel(100): a send completes only while the channel has room
SendReady(i) == Len(sink) < SinkCap

\* poller.rs:86: tx.send(update).await completes when the channel has room
Send(i) ==
  /\ Running /\ pc[i] = "send"
  /\ SendReady(i)
  /\ sink' = Append(sink, Get(upd[i]))
  /\ emitted' = [emitted EXCEPT ![i] = Append(@, Get(upd[i]))]
  /\ panes' = panes
  /\ pc' = [pc EXCEPT ![i] = FirstPoll(i)]
  /\ signal' = [signal EXCEPT ![i] = FALSE]
  /\ postStop' = [postStop EXCEPT ![i] = IF mainpc = "join" THEN @ + 1 ELSE @]
  /\ upd' = [upd EXCEPT ![i] = Nothing]
  /\ rres' = [rres EXCEPT ![i] = NoResult]
  /\ rlog' = [rlog EXCEPT ![i] = << >>]
  /\ at' = [at EXCEPT ![i] = 0]
  /\ UNCHANGED << cache, holder, rpos, stale, setup >>
  /\ UNCHANGED_env /\ UNCHANGED_main

\* poller.rs:89: the sleep elapses and the loop polls again
Wake(i) ==
  /\ Running /\ pc[i] = "wait"
  /\ BeginPoll(i)
  /\ UNCHANGED << cache, holder, rpos, rlog, rres, signal, sink, panes,
                  emitted, stale, setup, postStop >>
  /\ UNCHANGED_env /\ UNCHANGED_main

\* poller.rs:90: the shutdown message is received during the wait
Break(i) ==
  /\ Running /\ pc[i] = "wait"
  /\ signal[i]
  /\ pc' = [pc EXCEPT ![i] = "done"]
  /\ signal' = [signal EXCEPT ![i] = FALSE]
  /\ UNCHANGED << cache, holder, at, rpos, rlog, rres, upd, sink, panes,
                  emitted, stale, setup, postStop >>
  /\ UNCHANGED_env /\ UNCHANGED_main

\* ------------------------------------------------ consumer task (main.rs)

UNCHANGED_loops == UNCHANGED << pc, at, upd, signal, postStop >>
UNCHANGED_resolver == UNCHANGED << cache, holder, rpos, rlog, rres >>

\* variant: the newest update is delivered first
DequeueLast(q) == [item |-> q[Len(q)], rest |-> SubSeq(q, 1, Len(q) - 1)]

\* update_rx.recv(): the oldest update in the channel
Dequeue(q) == [item |-> Head(q), rest |-> Tail(q)]

\* main.rs:44-48: one update is received and applied
RecvUpdate ==
  /\ mainpc = "select"
  /\ sink # << >>
  /\ LET d == Dequeue(sink) IN
       /\ sink' = d.rest
       /\ panes' = apply_update(panes, d.item)
       /\ emitted' = [emitted EXCEPT ![d.item.index] = Tail(@)]
  /\ stale' = IF stale > 0 THEN stale - 1 ELSE 0
  /\ setup' = setup
  /\ UNCHANGED_loops /\ UNCHANGED_resolver /\ UNCHANGED_env /\ UNCHANGED_main

\* main.rs:65-67: the 200 ms tick runs the staleness sweep
TickSweep ==
  /\ mainpc = "select"
  /\ panes' = refresh_stale(panes, now)
  /\ UNCHANGED << sink, emitted, stale, setup >>
  /\ UNCHANGED_loops /\ UNCHANGED_resolver /\ UNCHANGED_env /\ UNCHANGED_main

\* main.rs:130,147-150: Tab moves the focus to the next pane
KeyTab ==
  /\ mainpc = "select"
  /\ NumPanes # 0
  /\ focused' = (focused + 1) % NumPanes
  /\ UNCHANGED << mainpc, joinIdx, sink, panes, emitted, stale, setup >>
  /\ UNCHANGED_loops /\ UNCHANGED_resolver /\ UNCHANGED_env

\* main.rs:102-113,186-192: r reloads the configuration; the consumer is
\* busy (load, pane selection) until it calls stop()
KeyReload ==
  /\ mainpc = "select"
  /\ mainpc' = "reload"
  /\ UNCHANGED << joinIdx, focused, sink, panes, emitted, stale, setup >>
  /\ UNCHANGED_loops /\ UNCHANGED_resolver /\ UNCHANGED_env

\* variant: only the loops that are waiting get the message
BroadcastWaitingOnly == [i \in LoopIds |-> pc[i] = "wait"]

\* shutdown.send(()) (poller.rs:17): every receiver gets the message
Broadcast == [i \in LoopIds |-> TRUE]

\* main.rs:194, poller.rs:17
StopBroadcast ==
  /\ mainpc = "reload"
  /\ signal' = Broadcast
  /\ mainpc' = IF NumPanes = 0 THEN "stopped" ELSE "join"
  /\ joinIdx' = 0
  /\ postStop' = [i \in LoopIds |-> 0]
  /\ UNCHANGED << pc, at, upd, focused, sink, panes, emitted, stale, setup >>
  /\ UNCHANGED_resolver /\ UNCHANGED_env

\* variant: stop() does not await the tasks
JoinedNoWait(k) == TRUE

\* variant: stop() awaits the first task only
JoinedFirstOnly(k) == k > 0 \/ pc[k] = "done"

\* task.await (poller.rs:19) completes when the task has finished
Joined(k) == pc[k] = "done"

\* poller.rs:18-20: the tasks are awaited in order; stop() returns after
\* the last one
StopJoin ==
  /\ mainpc = "join"
  /\ Joined(joinIdx)
  /\ IF joinIdx + 1 < NumPanes
       THEN /\ joinIdx' = joinIdx + 1
            /\ mainpc' = mainpc
       ELSE /\ joinIdx' = 0
            /\ mainpc' = "stopped"
  /\ UNCHANGED << focused, sink, panes, emitted, stale, setup >>
  /\ UNCHANGED_loops /\ UNCHANGED_resolver /\ UNCHANGED_env

\* main.rs:195-200: the new configuration, a new store and new pollers
\* replace the old ones; resolver and channel are reused
Restart ==
  /\ mainpc = "stopped"
  /\ hosts' \in HostConfigs
  /\ \E tr \in ReloadConfigs : Restarted(tr)
  /\ mainpc' = "select"
  /\ stale' = Len(sink)
  /\ setup' = setup
  /\ UNCHANGED << joinIdx, sink, emitted, now, reach, cache, holder, arg, ret >>

FocusedHost == FindHost(hosts, tracked[focused])

\* what take_control does with the result of resolve_target (main.rs:249)
AfterControlResolve ==
  mainpc' = IF rres'[MainId].kind = "none" THEN "tc_probe"
            ELSE IF rres'[MainId].kind = "ok" THEN "attach"
            ELSE "exited"

\* main.rs:127-129,235-244: Enter takes control of the focused pane
KeyEnter ==
  /\ mainpc = "select"
  /\ mainpc' = IF focused \notin LoopIds \/ FocusedHost = Nothing
               THEN "exited" ELSE "tc_lock"
  /\ UNCHANGED << joinIdx, focused, sink, panes, emitted, stale, setup >>
  /\ UNCHANGED_loops /\ UNCHANGED_resolver /\ UNCHANGED_env

\* main.rs:247-248
ControlLock ==
  /\ mainpc = "tc_lock"
  /\ LockFree(MainId)
  /\ ResolveEnter(MainId, Get(FocusedHost))
  /\ AfterControlResolve
  /\ UNCHANGED << joinIdx, focused, sink, panes, emitted, stale, setup >>
  /\ UNCHANGED_loops /\ UNCHANGED_env

\* main.rs:248: a probe of take_control's resolve call returns
ControlProbe ==
  /\ mainpc = "tc_probe"
  /\ ProbeReturn(MainId, Get(FocusedHost))
  /\ AfterControlResolve
  /\ UNCHANGED << joinIdx, focused, sink, panes, emitted, stale, setup >>
  /\ UNCHANGED_loops /\ UNCHANGED_env

\* main.rs:272-278: the interactive ssh session ends
ControlDone ==
  /\ mainpc = "attach"
  /\ mainpc' = "select"
  /\ rres' = [rres EXCEPT ![MainId] = NoResult]
  /\ rlog' = [rlog EXCEPT ![MainId] = << >>]
  /\ UNCHANGED << joinIdx, focused, sink, panes, emitted, stale, setup, cache, holder,
                  rpos >>
  /\ UNCHANGED_loops /\ UNCHANGED_env

\* ------------------------------------------------------------ environment

\* time passes
Tick ==
  /\ now + TickStep <= MaxTime
  /\ now' = now + TickStep
  /\ UNCHANGED << reach, hosts, tracked, screen, sink, panes, emitted, stale, setup, arg,
                  ret >>
  /\ UNCHANGED_loops /\ UNCHANGED_resolver /\ UNCHANGED_main

\* the program in a tracked pane prints, or the pane goes away or comes
\* back: capture_pane will find something else
Output(i) ==
  /\ \E c \in Screens \ {screen[i]} : screen' = [screen EXCEPT ![i] = c]
  /\ UNCHANGED << now, reach, hosts, tracked, sink, panes, emitted, stale, setup, arg, ret >>
  /\ UNCHANGED_loops /\ UNCHANGED_resolver /\ UNCHANGED_main

\* a tracked pane is closed, or is there again as it was at the start
Vanish(i) ==
  /\ screen' = [screen EXCEPT ![i] = IF @ = Nothing THEN Some(OutA) ELSE Nothing]
  /\ UNCHANGED << now, reach, hosts, tracked, sink, panes, emitted, stale, setup, arg, ret >>
  /\ UNCHANGED_loops /\ UNCHANGED_resolver /\ UNCHANGED_main

\* a target becomes reachable or unreachable
ReachChange ==
  /\ \E t \in UsedTargets(hosts, tracked) :
       reach' = IF t \in reach THEN reach \ {t} ELSE reach \cup {t}
  /\ UNCHANGED << now, hosts, tracked, screen, sink, panes, emitted, stale, setup, arg,
                  ret >>
  /\ UNCHANGED_loops /\ UNCHANGED_resolver /\ UNCHANGED_main

\* ------------------------------------------------------------------ Next

LoopStep(i) ==
  \/ Start(i)
  \/ Lock(i)
  \/ Probe(i)
  \/ Capture(i)
  \/ Send(i)
  \/ Wake(i)
  \/ Break(i)

\* the supervisor and its consumer: polling, draining, reconfiguration
Next ==
  \/ \E i \in LoopIds : LoopStep(i)
  \/ RecvUpdate
  \/ KeyReload
  \/ StopBroadcast
  \/ StopJoin
  \/ Restart

Spec == Init /\ [][Next]_vars

\* the shared resolver: polling, take_control, expiry, changing reachability
NextResolve ==
  \/ \E i \in LoopIds : LoopStep(i)
  \/ RecvUpdate
  \/ KeyTab
  \/ KeyEnter
  \/ ControlLock
  \/ ControlProbe
  \/ ControlDone
  \/ Tick
  \/ ReachChange

SpecResolve == InitResolve /\ [][NextResolve]_vars

\* a single tracked pane on a reachable host; its content changes while
\* time passes
InitStore ==
  /\ InitWith({SameHost(1)})
  /\ reach = UsedTargets(hosts, tracked)

\* the store: polling, draining, the staleness sweep, time, pane output
NextStore ==
  \/ \E i \in LoopIds : LoopStep(i)
  \/ RecvUpdate
  \/ TickSweep
  \/ Tick
  \/ \E i \in LoopIds : Output(i)

SpecStore == InitStore /\ [][NextStore]_vars

TypeOK ==
  /\ now \in 0 .. MaxTime
  /\ holder \in Callers \cup {Nobody}
  /\ Len(sink) <= SinkCap
  /\ \A i \in LoopIds :
       /\ pc[i] \in {"start", "lock", "probe", "capture", "send", "wait", "done"}
       /\ screen[i] \in Screens
       /\ panes[i].status \in {"Ok", "Down", "Stale"}
  /\ DOMAIN panes = DOMAIN tracked

\* --------------------------------------------------------------- shutdown

\* stop() has returned and start_pollers has not yet replaced the handle
StopReturned == mainpc = "stopped"

\* stop() has broadcast the signal and is awaiting the tasks
Stopping == mainpc = "join"

\* C1: once stop() has returned, no loop of the stopped supervisor sends an
\* update into the sink: the sink does not grow.
C1_NoEmitAfterStop ==
  [][StopReturned => Len(sink') <= Len(sink)]_vars

\* stop() returned after a full-size supervisor was shut down while one of
\* its loops was mid-poll (that loop emitted its last update during stop())
C1_Witness ==
  /\ StopReturned
  /\ NumPanes = NPanes
  /\ \E i \in LoopIds : postStop[i] = 1

\* C2: in no reachable state has stop() returned while a loop spawned by
\* start_pollers for that handle is still running.
C2_StopJoinsAll ==
  StopReturned => \A i \in LoopIds : pc[i] = "done"

\* stop() returned for a supervisor with several loops
C2_Witness ==
  /\ StopReturned
  /\ NumPanes >= 2

\* C3: provided sends find room in the sink again and again (the consumer
\* keeps draining) and in-flight calls return (fairness of LiveSpec), a
\* stop() that has broadcast the signal eventually returns.  LiveSpec puts no
\* fairness on Wake and has no clock step: the loops exit on the signal, not
\* because the refresh interval elapses.
C3_StopTerminates ==
  ([]<>(Len(sink) < SinkCap)) => (Stopping ~> StopReturned)

\* stop() returned although every loop was in its wait or already polled:
\* no loop emitted anything between the broadcast and the return
C3_Witness ==
  /\ StopReturned
  /\ NumPanes >= 1
  /\ \A i \in LoopIds : postStop[i] = 0

\* every step a loop takes without the timer: remote calls return, the
\* resolver lock is granted, a send with room completes, a pending signal is
\* received
LoopProgress(i) ==
  \/ Start(i)
  \/ Lock(i)
  \/ Probe(i)
  \/ Capture(i)
  \/ Send(i)
  \/ Break(i)

\* the pollers of a configuration with panes on two hosts, the first
\* address of the first host not answering
InitLive ==
  /\ InitWith({TwoHosts(NPanes)})
  /\ reach = UsedTargets(hosts, tracked) \ {"a"}

LiveSpec ==
  /\ InitLive /\ [][Next]_vars
  /\ \A i \in PaneIds(NPanes) : WF_vars(i \in LoopIds /\ LoopProgress(i))
  /\ WF_vars(StopJoin)

\* C4: cancellation is cooperative.  (a) While stop() is joining, every
\* loop that has not exited still has the signal pending (never lost), and
\* (b) has sent at most one update since the broadcast.  (c) A loop leaves
\* for "done" only from its wait, without touching the sink, or from the
\* send of the update of the poll that was in flight, which is appended to
\* the sink; (d) an exited loop stays exited until the handle is replaced.
C4_State ==
  \A i \in LoopIds :
    /\ (Stopping /\ pc[i] # "done") => signal[i]
    /\ postStop[i] <= 1

C4_Step ==
  \A i \in LoopIds :
    /\ (pc[i] # "done" /\ i \in DOMAIN pc' /\ pc'[i] = "done" /\ ~StopReturned)
         => \/ pc[i] = "wait" /\ sink' = sink
            \/ pc[i] = "send" /\ sink' = Append(sink, Get(upd[i]))
    /\ (pc[i] = "done" /\ ~StopReturned) => pc'[i] = "done"

C4_Cooperative == []C4_State /\ [][C4_Step]_vars

\* a loop that was mid-poll when the signal was broadcast has sent its one
\* update and exited, while stop() is still waiting for another loop
C4_Witness ==
  /\ Stopping
  /\ \E i \in LoopIds : pc[i] = "done" /\ postStop[i] = 1
  /\ \E j \in LoopIds : pc[j] # "done"

\* --------------------------------------------------------------- resolver

\* positions of a caller with respect to a resolve call
AtLock(c) == IF c = MainId THEN mainpc = "tc_lock" ELSE pc[c] = "lock"
InProbe(c) == IF c = MainId THEN mainpc = "tc_probe" ELSE pc[c] = "probe"

\* the step in which c acquires the guard and resolve_target is entered
LeavesLock(c) ==
  IF c = MainId THEN mainpc = "tc_lock" /\ mainpc' # "tc_lock"
  ELSE pc[c] = "lock" /\ pc'[c] # "lock"

\* the step in which c's resolve_target call returns
Returns(c) == rres[c].kind = "none" /\ rres'[c].kind # "none"

HasEntry(name) == cache[name] # Nothing
Age(name) == now - Get(cache[name]).checked_at
Usable(name) == HasEntry(name) /\ Age(name) < CACHE_TTL
Expired(name) == HasEntry(name) /\ Age(name) >= CACHE_TTL

\* C5: with no cache entry for the host, resolve_target probes host.targets
\* in declared order, stops at the first probe that succeeds, returns that
\* target and writes the entry (that target, now).
C5_State ==
  \A c \in Callers :
    InProbe(c) =>
      LET ts == CallerHost(c).targets IN
      /\ rpos[c] = Len(rlog[c]) + 1
      /\ rpos[c] <= Len(ts)
      /\ \A k \in 1 .. Len(rlog[c]) :
           rlog[c][k].target = ts[k] /\ ~rlog[c][k].ok

C5_Step ==
  \A c \in Callers :
    /\ (LeavesLock(c) /\ ~HasEntry(CallerHost(c).name)
           /\ Len(CallerHost(c).targets) > 0)
         => (rpos'[c] = 1 /\ rres'[c].kind = "none" /\ rlog'[c] = << >>)
    /\ (Returns(c) /\ rres'[c].kind = "ok" /\ rlog'[c] # << >>)
         => LET ts == CallerHost(c).targets
                n == Len(rlog'[c]) IN
            /\ n <= Len(ts)
            /\ \A k \in 1 .. n :
                 rlog'[c][k].target = ts[k] /\ (rlog'[c][k].ok <=> k = n)
            /\ ts[n] \in reach
            /\ rres'[c].target = ts[n]
            /\ cache'[CallerHost(c).name] =
                 Some([target |-> ts[n], checked_at |-> now])

C5_ResolutionOrder == []C5_State /\ [][C5_Step]_vars

\* targets [a, b] with a unreachable: a then b were probed, b is returned
\* and cached
C5_Witness ==
  \E c \in Callers :
    /\ rres[c] = OkResult("b")
    /\ Len(rlog[c]) = 2
    /\ rlog[c][1] = [target |-> "a", ok |-> FALSE]
    /\ HasEntry("h1") /\ Get(cache["h1"]).target = "b"

\* C6: with an entry younger than the TTL, resolve_target returns the cached
\* target at once, without any probe, and leaves the cache unchanged.
C6_CacheHit ==
  [][\A c \in Callers :
       (LeavesLock(c) /\ Usable(CallerHost(c).name))
         => /\ rres'[c] = OkResult(Get(cache[CallerHost(c).name]).target)
            /\ rlog'[c] = << >>
            /\ rpos'[c] = 0
            /\ holder' = Nobody
            /\ cache' = cache]_vars

\* a call has returned a cached target without probing while the entry was
\* neither new nor expired
C6_Witness ==
  \E c \in Callers \ {MainId} :
    /\ pc[c] = "capture"
    /\ rres[c].kind = "ok" /\ rlog[c] = << >>
    /\ Usable(tracked[c]) /\ Age(tracked[c]) > 0

\* C7: an entry whose age has reached the TTL is treated as absent: the
\* call starts probing at the first declared candidate, and the result of
\* the probes replaces the entry with a fresh timestamp.
C7_Step ==
  \A c \in Callers :
    /\ (LeavesLock(c) /\ Expired(CallerHost(c).name)
           /\ Len(CallerHost(c).targets) > 0)
         => (rpos'[c] = 1 /\ rres'[c].kind = "none" /\ holder' = c
               /\ rlog'[c] = << >>)
    /\ (Returns(c) /\ rres'[c].kind = "ok" /\ Expired(CallerHost(c).name))
         => /\ rlog'[c] # << >>
            /\ cache'[CallerHost(c).name] =
                 Some([target |-> rres'[c].target, checked_at |-> now])

C7_Expiry == [][C7_Step]_vars

\* the first candidate is being probed although the expired entry's target
\* (another candidate) is still reachable
C7_Witness ==
  \E c \in Callers :
    /\ InProbe(c) /\ rpos[c] = 1
    /\ Expired(CallerHost(c).name)
    /\ Get(cache[CallerHost(c).name]).target \in reach
    /\ Get(cache[CallerHost(c).name]).target # CallerHost(c).targets[1]

\* C8: when every probe fails, or there is no candidate, resolve_target
\* returns the error for that host and the cache is as it was when the call
\* began: no step of a failing call changes the cache.
C8_Step ==
  /\ \A c \in Callers :
       /\ (Returns(c) /\ rres'[c].kind = "err")
            => /\ rres'[c] = ErrResult(CallerHost(c))
               /\ Len(rlog'[c]) = Len(CallerHost(c).targets)
               /\ \A k \in 1 .. Len(rlog'[c]) : ~rlog'[c][k].ok
               /\ cache' = cache
       /\ LeavesLock(c) => cache' = cache
  /\ (holder # Nobody /\ cache' # cache)
       => (Returns(holder) /\ rres'[holder].kind = "ok")

C8_FailureKeepsCache == [][C8_Step]_vars

\* a call has failed after probing every candidate, and the expired entry
\* of its host is still in the cache
C8_Witness ==
  \E c \in Callers \ {MainId} :
    /\ rres[c].kind = "err" /\ rlog[c] # << >>
    /\ Expired(tracked[c])

\* C9: at most one caller is inside resolve_target, it holds the guard, and
\* it is probing only because the host had no usable entry: a caller that
\* waited for the guard sees the entry written by the call before it.
C9_Exclusive ==
  /\ Cardinality({c \in Callers : InProbe(c)}) <= 1
  /\ \A c \in Callers :
       InProbe(c) => (holder = c /\ ~Usable(CallerHost(c).name))
  /\ (holder # Nobody) => InProbe(holder)

\* the loop's call is probing while take_control waits for the guard
C9_Witness ==
  \E c \in LoopIds :
    /\ InProbe(c)
    /\ AtLock(MainId)
    /\ CallerHost(MainId).name = CallerHost(c).name

\* C10 as stated: a poll for a pane on another host never has to wait for a
\* resolve call in progress; when it asks for the resolver it gets it.
C10_Original ==
  \A i, j \in LoopIds :
    (pc[i] = "probe" /\ pc[j] = "lock" /\ tracked[i] # tracked[j])
      => LockFree(j)

\* C10 amended: the resolver has one guard for all hosts, so a poll on
\* another host waits at the lock while a resolve call is in progress: it
\* does not enter resolve_target in that step, and two calls are never in
\* progress together, whatever their hosts.
C10_Serialized ==
  [][\A i, j \in LoopIds :
       (pc[i] = "probe" /\ pc[j] = "lock" /\ tracked[i] # tracked[j])
         => (pc'[j] = "lock" /\ ~(pc'[i] = "probe" /\ pc'[j] = "probe"))]_vars

\* a poll on h2 waits at the lock while a probe for h1 is in flight
C10_Witness ==
  \E i, j \in LoopIds :
    /\ pc[i] = "probe" /\ pc[j] = "lock"
    /\ tracked[i] = "h1" /\ tracked[j] = "h2"

\* ------------------------------------------------------- the update sink

\* the updates of pane index i that are in the channel, oldest first
Project(q, i) == SelectSeq(q, LAMBDA u : u.index = i)

\* the step applies an update to pane i
Applies(i) == Len(emitted'[i]) < Len(emitted[i])

\* C11: the updates of one pane index are applied in the order in which the
\* pane's loop sent them.  The channel keeps each pane's updates in sending
\* order (emitted records that order at the send), and the update the
\* consumer applies to a pane is the oldest one of that pane not yet
\* applied.
C11_State ==
  \A i \in PaneIds(NPanes) : Project(sink, i) = emitted[i]

C11_Step ==
  \A i \in PaneIds(NPanes) :
    (Applies(i) /\ i \in DOMAIN panes)
      => /\ panes'[i].last_update = Some(Head(emitted[i]).at)
         /\ emitted'[i] = Tail(emitted[i])

C11_PerPaneOrder == []C11_State /\ [][C11_Step]_vars

\* two different updates of one pane are queued, the older one first, after
\* an earlier update of that pane has been applied
C11_Witness ==
  \E i \in LoopIds :
    /\ Len(emitted[i]) >= 2
    /\ emitted[i][1].at < emitted[i][2].at
    /\ panes[i].last_update # Nothing

\* C12: the channel never holds more than its capacity; a loop whose send
\* finds it full stays at the send with its update (it polls no further),
\* and a send that completes appends that update: nothing is dropped.
C12_Step ==
  \A i \in LoopIds :
    /\ (pc[i] = "send" /\ Len(sink) >= SinkCap)
         => (pc'[i] = "send" /\ upd'[i] = upd[i])
    /\ (pc[i] = "send" /\ pc'[i] # "send")
         => sink' = Append(sink, Get(upd[i]))

C12_BoundedSink == [](Len(sink) <= SinkCap) /\ [][C12_Step]_vars

\* every loop of a full-size supervisor waits at its send, the channel full
C12_Witness ==
  /\ Len(sink) = SinkCap
  /\ NumPanes = NPanes
  /\ \A i \in LoopIds : pc[i] = "send"

\* a full-size supervisor on one reachable host and a consumer that only
\* receives
InitDrain ==
  /\ InitWith({SameHost(NPanes)})
  /\ reach = UsedTargets(hosts, tracked)

NextDrain ==
  \/ \E i \in LoopIds : LoopStep(i)
  \/ RecvUpdate

\* the channel serves its waiting senders fairly: a send that finds room
\* again and again completes
DrainSpec ==
  /\ InitDrain /\ [][NextDrain]_vars
  /\ \A i \in PaneIds(NPanes) : SF_vars(Send(i))

\* loop i waits at its send because the channel is full
Blocked(i) == pc[i] = "send" /\ Len(sink) >= SinkCap

\* C13: if the consumer keeps draining (the channel has room again and
\* again), every loop that is blocked on the full channel eventually
\* completes its send, whatever the other loops do.
C13_NoStarvation ==
  ([]<>(Len(sink) < SinkCap))
    => \A i \in PaneIds(NPanes) : Blocked(i) ~> (pc[i] = "wait")

\* every loop is blocked on the full channel at once
C13_Witness ==
  /\ NumPanes >= 2
  /\ \A i \in LoopIds : Blocked(i)

\* ---------------------------------------------------------- apply_update

\* the update that the step applies to pane i
Applied(i) == Head(emitted[i])

\* C14: an applied capture whose fingerprint differs from the stored one, or
\* with none stored, sets last_change to the update's timestamp; with an
\* equal fingerprint last_change stays while last_update advances; either
\* way the stored fingerprint and capture become the new ones.
C14_Step ==
  \A i \in DOMAIN panes :
    (Applies(i) /\ Applied(i).capture # Nothing)
      => LET u == Applied(i)
             h == hash_capture(Get(u.capture))
             differs == panes[i].last_hash = Nothing
                          \/ Get(panes[i].last_hash) # h
         IN /\ differs => panes'[i].last_change = Some(u.at)
            /\ ~differs => panes'[i].last_change = panes[i].last_change
            /\ panes'[i].last_update = Some(u.at)
            /\ panes'[i].last_hash = Some(h)
            /\ panes'[i].last_capture = u.capture

C14_ChangeDetection == [][C14_Step]_vars

\* an Ok pane whose capture was applied again unchanged at a later time: the
\* change timestamp is older than the update timestamp
C14_Witness ==
  \E i \in DOMAIN panes :
    /\ panes[i].status = "Ok"
    /\ panes[i].last_change # Nothing
    /\ Get(panes[i].last_change) < Get(panes[i].last_update)
    /\ panes[i].last_hash = Some(hash_capture(Get(panes[i].last_capture)))

\* C15: an applied update sets the pane's status, error and last_update to
\* its own, whatever the status was before.
C15_Step ==
  \A i \in DOMAIN panes :
    Applies(i)
      => /\ panes'[i].status = Applied(i).status
         /\ panes'[i].error = Applied(i).error
         /\ panes'[i].last_update = Some(Applied(i).at)

C15_StatusFromUpdate == [][C15_Step]_vars

\* a pane that had a capture (it was Ok) is Down, and an Ok update for it is
\* next in the channel
C15_Witness ==
  \E i \in DOMAIN panes :
    /\ panes[i].status = "Down"
    /\ panes[i].last_capture # Nothing
    /\ sink # << >> /\ Head(sink).index = i /\ Head(sink).status = "Ok"

\* C16: an applied update without a capture leaves last_capture, the
\* fingerprint and last_change as they were and sets only status, error and
\* last_update.
C16_Step ==
  \A i \in DOMAIN panes :
    (Applies(i) /\ Applied(i).capture = Nothing)
      => panes'[i] = [panes[i] EXCEPT !.status = Applied(i).status,
                                      !.error = Applied(i).error,
                                      !.last_update = Some(Applied(i).at)]

C16_DownKeepsCapture == [][C16_Step]_vars

\* a Down pane shows the capture of an earlier poll next to the error of a
\* later one
C16_Witness ==
  \E i \in DOMAIN panes :
    /\ panes[i].status = "Down"
    /\ panes[i].error = "capture-pane failed"
    /\ panes[i].last_capture = Some(OutB)
    /\ Get(panes[i].last_change) < Get(panes[i].last_update)

\* --------------------------------------------------------- refresh_stale

\* the status the sweep rule gives a pane that is not Down
SweepRule(pane) ==
  IF pane.last_update = Nothing THEN "Stale"
  ELSE IF now - Get(pane.last_update) > 2 * Refresh THEN "Stale"
  ELSE "Ok"

\* C17: refresh_stale sets every pane that is not Down to Stale if it never
\* received an update or its last update is more than twice the refresh
\* interval old, and to Ok otherwise (an age of exactly twice the interval
\* is Ok); nothing but the status changes.
C17_Step ==
  TickSweep =>
    \A i \in DOMAIN panes :
      panes[i].status # "Down"
        => panes'[i] = [panes[i] EXCEPT !.status = SweepRule(panes[i])]

C17_SweepRule == [][C17_Step]_vars

\* a pane that was updated is Stale: only the sweep does that
C17_Witness ==
  \E i \in DOMAIN panes :
    /\ panes[i].status = "Stale"
    /\ panes[i].last_update # Nothing
    /\ now - Get(panes[i].last_update) > 2 * Refresh

\* C18: refresh_stale leaves a Down pane exactly as it is and makes no pane
\* Down; a pane stops being Down only in a step that applies an Ok update
\* to it.
C18_Step ==
  /\ TickSweep =>
       \A i \in DOMAIN panes :
         /\ panes[i].status = "Down" => panes'[i] = panes[i]
         /\ panes'[i].status = "Down" => panes[i].status = "Down"
  /\ \A i \in DOMAIN panes :
       (panes[i].status = "Down" /\ panes'[i].status # "Down")
         => (Applies(i) /\ Applied(i).status = "Ok" /\ panes'[i].status = "Ok")

C18_DownUntilOk == [][C18_Step]_vars

\* a Down pane whose last update is older than the staleness threshold is
\* still Down while the consumer is sweeping
C18_Witness ==
  \E i \in DOMAIN panes :
    /\ panes[i].status = "Down"
    /\ now - Get(panes[i].last_update) > 2 * Refresh
    /\ mainpc = "select"

\* ------------------------------------------------- the store as an object

\* updates a caller can hand to apply_update at time t: any index, also one
\* past the pane list, with a capture or with an error
UpdatesAt(t) ==
  { [index |-> i, status |-> "Ok", capture |-> Some(c), error |-> None,
     at |-> t] : i \in 0 .. NPanes, c \in {OutA, OutB} }
  \cup
  { [index |-> i, status |-> "Down", capture |-> Nothing,
     error |-> "capture-pane failed", at |-> t] : i \in 0 .. NPanes }

\* AppState::apply_update called with any update
ApplyAny ==
  /\ \E u \in UpdatesAt(now) : panes' = apply_update(panes, u)
  /\ UNCHANGED << sink, emitted, stale, setup >>
  /\ UNCHANGED_loops /\ UNCHANGED_resolver /\ UNCHANGED_env /\ UNCHANGED_main

\* a store for a full-length tracked list; no poller runs
InitApply ==
  /\ InitWith(TrackedOfLen(NPanes))
  /\ reach = {}

NextApply ==
  \/ ApplyAny
  \/ TickSweep
  \/ Tick

SpecApply == InitApply /\ [][NextApply]_vars

\* C19: the store has one PaneState per tracked pane, in the order of the
\* tracked list, created Stale with no capture, timestamps, fingerprint or
\* error; apply_update and refresh_stale never change the length of the
\* list or the tracked pane a PaneState refers to.
C19_State ==
  /\ DOMAIN panes = DOMAIN tracked
  /\ \A i \in DOMAIN panes :
       /\ panes[i].tracked = tracked[i]
       /\ panes[i].last_update = Nothing
            => /\ panes[i].status = "Stale"
               /\ panes[i].last_capture = Nothing
               /\ panes[i].last_change = Nothing
               /\ panes[i].last_hash = Nothing
               /\ panes[i].error = None

C19_Step ==
  /\ DOMAIN panes' = DOMAIN panes
  /\ \A i \in DOMAIN panes : panes'[i].tracked = panes[i].tracked

C19_StoreShape == []C19_State /\ [][C19_Step]_vars

\* panes tracked on different hosts have been updated and swept
C19_Witness ==
  \E i, j \in DOMAIN panes :
    /\ panes[i].tracked # panes[j].tracked
    /\ panes[i].status = "Down"
    /\ panes[j].status = "Stale" /\ panes[j].last_update # Nothing

\* --------------------------------------------------------- activity_state

\* values of active_window and idle_after tried, in units of the clock
Windows == {0, TickStep, 2 * TickStep}

\* instants up to t at which a pane can have changed
ChangesUpTo(t) == {Nothing} \cup {Some(k * TickStep) : k \in 0 .. (t \div TickStep)}

\* PaneState::activity_state is called on a pane with any status and change
\* time, for any pair of thresholds; the call and its result are recorded
Activity ==
  /\ \E st \in {"Ok", "Down", "Stale"}, lc \in ChangesUpTo(now),
        aw \in Windows, ia \in Windows :
       LET pane == [NewPane("h1") EXCEPT !.status = st, !.last_change = lc] IN
       /\ arg' = Some([pane |-> pane, t |-> now, active_window |-> aw,
                       idle_after |-> ia])
       /\ ret' = Some(pane_activity_state(pane, now, aw, ia))
  /\ UNCHANGED << now, reach, hosts, tracked, screen, sink, panes, emitted, stale, setup >>
  /\ UNCHANGED_loops /\ UNCHANGED_resolver /\ UNCHANGED_main

\* no pane is tracked; only the function is exercised while time passes
InitActivity ==
  /\ InitWith(TrackedOfLen(0))
  /\ reach = {}

NextActivity ==
  \/ Activity
  \/ Tick

SpecActivity == InitActivity /\ [][NextActivity]_vars

\* the age of the pane's last change at the time of the call
CallAge == Get(arg).t - Get(Get(arg).pane.last_change)

\* C20: activity_state returns Quiet for a pane that is not Ok or never
\* changed; otherwise Active if the age of the last change is at most
\* active_window, else Idle if it is at least idle_after, else Quiet; the
\* result depends on nothing but the pane, the time and the thresholds.
C20_Activity ==
  ret # Nothing =>
    LET a == Get(arg) IN
    IF a.pane.status # "Ok" \/ a.pane.last_change = Nothing
    THEN Get(ret) = "Quiet"
    ELSE /\ CallAge <= a.active_window => Get(ret) = "Active"
         /\ (CallAge > a.active_window /\ CallAge >= a.idle_after)
              => Get(ret) = "Idle"
         /\ (CallAge > a.active_window /\ CallAge < a.idle_after)
              => Get(ret) = "Quiet"

\* both thresholds are met and the answer is Active
C20_Witness ==
  /\ ret = Some("Active")
  /\ Get(arg).pane.status = "Ok"
  /\ CallAge > 0
  /\ CallAge >= Get(arg).idle_after

\* ------------------------------------------------- outcome of a poll cycle

\* one pane whose host answers or not and whose capture works or not, or a
\* full list of panes whose hosts have no target or are not configured
InitPoll ==
  /\ InitWith({SameHost(1), LostHost(NPanes)})
  /\ reach = UsedTargets(hosts, tracked)

\* polling and draining while reachability and the first pane change
NextPoll ==
  \/ \E i \in LoopIds : LoopStep(i)
  \/ RecvUpdate
  \/ ReachChange
  \/ Output(0)

SpecPoll == InitPoll /\ [][NextPoll]_vars

\* the update of loop i is built in this step
Builds(i) == upd[i] = Nothing /\ upd'[i] # Nothing

\* the shape of an update: Ok with a capture and no error, or Down with an
\* error and no capture
WellFormed(u) ==
  \/ u.status = "Ok" /\ u.capture # Nothing /\ u.error = None
  \/ u.status = "Down" /\ u.capture = Nothing /\ u.error # None

C21_State ==
  /\ DOMAIN pc = DOMAIN tracked
  /\ \A i \in LoopIds :
       /\ pc[i] = "capture" => rres[i].kind = "ok"
       /\ upd[i] # Nothing => Get(upd[i]).index = i /\ WellFormed(Get(upd[i]))
  /\ \A k \in 1 .. Len(sink) : WellFormed(sink[k])

C21_Step ==
  \A i \in LoopIds :
    /\ Builds(i) =>
         LET u == Get(upd'[i]) IN
         /\ u.index = i
         /\ u.status = "Ok" <=> (pc[i] = "capture" /\ screen[i] # Nothing)
         /\ u.status = "Ok" => u.capture = screen[i]
         /\ (pc[i] \in {"lock", "probe"} /\ rres'[i].kind = "err")
              => u.status = "Down" /\ pc'[i] = "send"
    /\ Len(emitted'[i]) > Len(emitted[i]) =>
         /\ sink' = Append(sink, Get(upd[i]))
         /\ Get(upd[i]).index = i

\* C21: there is one loop per tracked pane and every update of loop i has
\* index i; an update is Ok with a capture and no error exactly when the
\* resolve and the capture of its cycle succeeded, and Down with an error
\* and no capture when the resolve failed (the capture is then skipped) or
\* the capture failed; no update is Stale.
C21_OutcomeMapping == [](C21_State) /\ [][C21_Step]_vars

\* a failed resolve, a failed capture and a good capture are all waiting in
\* the channel or about to be sent
C21_Witness ==
  /\ 0 \in LoopIds /\ pc[0] = "send"
  /\ Get(upd[0]).status = "Ok"
  /\ Len(sink) = 2
  /\ sink[1].error = "No reachable targets"
  /\ sink[2].error = "capture-pane failed"

\* ------------------------------------------------------------ self-healing

\* one pane on a reachable host
InitHeal ==
  /\ InitWith({SameHost(1)})
  /\ reach = UsedTargets(hosts, tracked)

\* the remote calls return and the sleep elapses
HealSpec ==
  /\ InitHeal /\ [][NextPoll]_vars
  /\ \A i \in PaneIds(1) : WF_vars(i \in LoopIds /\ LoopStep(i))

\* resolve and capture succeed: every address of the pane's host answers
\* and the pane can be captured
Healthy(i) ==
  /\ screen[i] # Nothing
  /\ reach = UsedTargets(hosts, tracked)

C22_Step ==
  \A i \in LoopIds :
    /\ (pc[i] = "send" /\ pc'[i] # "send") => pc'[i] = "wait" \/ signal[i]
    /\ (Applies(i) /\ Applied(i).status = "Ok" /\ panes[i].status = "Down")
         => panes'[i].status = "Ok"

\* C22: a failed cycle is followed by the wait for the next one, never by
\* the end of the loop; the Ok update of a later cycle makes a Down pane Ok
\* when it is applied; and if the consumer keeps emptying the channel, a
\* Down pane whose resolve and capture succeed from some point on becomes
\* Ok with nothing but the loop's own re-polling.
C22_SelfHealing ==
  /\ [][C22_Step]_vars
  /\ (([]<>(sink = << >>)) /\ <>[](0 \in LoopIds /\ Healthy(0)))
       => ((panes[0].status = "Down") ~> (panes[0].status = "Ok"))

\* the pane is Down after a failed capture, the capture works again and the
\* Ok update of the next cycle is the next to be applied
C22_Witness ==
  /\ 0 \in LoopIds
  /\ panes[0].status = "Down" /\ panes[0].error = "capture-pane failed"
  /\ Healthy(0)
  /\ sink # << >> /\ Head(sink).status = "Ok"

\* --------------------------------------------------------- error isolation

\* panes on two hosts that answer, or panes whose hosts have no target or
\* are not configured
InitIsolate ==
  /\ InitWith({TwoHosts(NPanes), LostHost(NPanes)})
  /\ reach = UsedTargets(hosts, tracked)

\* polling and draining while the first pane goes away and returns
NextIsolate ==
  \/ \E i \in LoopIds : LoopStep(i)
  \/ RecvUpdate
  \/ Vanish(0)

SpecIsolate == InitIsolate /\ [][NextIsolate]_vars

\* the loop of pane j is where it was
LoopUntouched(j) ==
  /\ pc'[j] = pc[j]
  /\ upd'[j] = upd[j]
  /\ signal'[j] = signal[j]

C23_Step ==
  \A i \in LoopIds :
    /\ (Builds(i) /\ Get(upd'[i]).status = "Down")
         => /\ Get(upd'[i]).index = i
            /\ Get(upd'[i]).error # None
            /\ pc'[i] = "send"
            /\ panes' = panes
            /\ \A j \in LoopIds \ {i} : LoopUntouched(j)
    /\ (Applies(i) /\ Applied(i).status = "Down")
         => /\ panes'[i].status = "Down"
            /\ panes'[i].error = Applied(i).error
            /\ \A j \in LoopIds \ {i} : panes'[j] = panes[j] /\ LoopUntouched(j)
    /\ pc'[i] # "done"

\* C23: a failed resolve, a failed capture or an unconfigured host of pane
\* i yields a Down update with an error for index i and nothing else: the
\* other loops are where they were, no loop ends, and applying the update
\* changes pane i only.
C23_ErrorIsolation == [][C23_Step]_vars

\* the first pane is Down after a failed capture while the second pane is
\* Ok and its loop is between two cycles
C23_Witness ==
  /\ NumPanes >= 2
  /\ panes[0].status = "Down" /\ panes[0].error = "capture-pane failed"
  /\ panes[1].status = "Ok"
  /\ pc[1] = "wait"

\* ------------------------------------------------------------ fingerprint

\* bytes of a line: an ASCII byte and a byte of a multi-byte character
HashBytes == {36, 195}

SeqsUpTo(S, n) == UNION { [1 .. k -> S] : k \in 0 .. n }

\* the captures hashed: up to MaxLines lines of up to MaxLineLen bytes
HashInputs ==
  { [command |-> cmd, title |-> "t1", lines |-> ls] :
      cmd \in {<< >>, << 118 >>},
      ls \in SeqsUpTo(SeqsUpTo(HashBytes, MaxLineLen), MaxLines) }

\* the capture itself, the capture under another title, and every capture
\* that differs from it in one byte of one line
Variants(c) ==
  {c, [c EXCEPT !.title = "t2"]}
  \cup UNION { UNION { { [c EXCEPT !.lines[k][m] = x] :
                            x \in HashBytes \ {c.lines[k][m]} } :
                       m \in 1 .. Len(c.lines[k]) } :
               k \in 1 .. Len(c.lines) }

\* hash_capture is called on a capture and on one of its variants; the
\* calls and their results are recorded
Fingerprint ==
  /\ ret = Nothing
  /\ \E c \in HashInputs : \E d \in Variants(c) :
       /\ arg' = Some([a |-> c, b |-> d])
       /\ ret' = Some([a |-> hash_capture(c), b |-> hash_capture(d)])
  /\ UNCHANGED << now, reach, hosts, tracked, screen, sink, panes, emitted, stale, setup >>
  /\ UNCHANGED_loops /\ UNCHANGED_resolver /\ UNCHANGED_main

SpecHash == InitActivity /\ [][Fingerprint]_vars

\* the lines then the command as one byte string, a newline after each line
RECURSIVE FlatLines(_, _)
FlatLines(lines, k) ==
  IF k > Len(lines) THEN << >>
  ELSE lines[k] \o << 10 >> \o FlatLines(lines, k + 1)

Flatten(c) == FlatLines(c.lines, 1) \o c.command

\* the positions at which two lists of lines of the same shape differ
DiffPositions(l1, l2) ==
  { km \in (1 .. Len(l1)) \X (1 .. MaxLineLen + 1) :
      /\ km[2] <= Len(l1[km[1]])
      /\ l1[km[1]][km[2]] # l2[km[1]][km[2]] }

OneByteApart(l1, l2) ==
  /\ Len(l1) = Len(l2)
  /\ \A k \in 1 .. Len(l1) : Len(l1[k]) = Len(l2[k])
  /\ Cardinality(DiffPositions(l1, l2)) = 1

\* C24: the fingerprint is the FNV-1a hash of the lines, each followed by a
\* newline, and then the command; captures with the same command and lines
\* have the same fingerprint whatever their title, and captures that differ
\* in a single byte of a single line have different ones.
C24_Fingerprint ==
  ret # Nothing =>
    LET a == Get(arg).a
        b == Get(arg).b
    IN /\ Get(ret).a = FnvBytes(FnvOffset, Flatten(a), 1)
       /\ (a.command = b.command /\ a.lines = b.lines)
            => Get(ret).a = Get(ret).b
       /\ (a.command = b.command /\ OneByteApart(a.lines, b.lines))
            => Get(ret).a # Get(ret).b

\* two captures of two lines that differ in one byte of the second line
C24_Witness ==
  /\ ret # Nothing
  /\ Len(Get(arg).a.lines) = 2
  /\ OneByteApart(Get(arg).a.lines, Get(arg).b.lines)
  /\ Get(arg).a.lines[1] = Get(arg).b.lines[1]
  /\ Get(ret).a # Get(ret).b

\* -------------------------------------------------------------- timestamps

\* loop i completes its send in this step
Sends(i) == Len(emitted'[i]) > Len(emitted[i])

\* loop i is at the top of its loop body
AtTop(i) == pc[i] \in {"start", "wait"}

\* C25 as stated: the timestamp of an update is the time at which the loop
\* sends it.
C25_Original ==
  [][\A i \in LoopIds : Sends(i) => Get(upd[i]).at = now]_vars

C25_State ==
  \A i \in LoopIds :
    /\ pc[i] \in {"lock", "probe", "capture"} => at[i] <= now
    /\ upd[i] # Nothing => Get(upd[i]).at <= now

C25_Step ==
  \A i \in LoopIds :
    /\ (AtTop(i) /\ pc'[i] \in {"lock", "send"}) => at'[i] = now
    /\ (pc[i] \in {"lock", "probe"} /\ pc'[i] \in {"lock", "probe", "capture"})
         => at'[i] = at[i]
    /\ Builds(i) => Get(upd'[i]).at = (IF AtTop(i) THEN now ELSE at[i])
    /\ Sends(i) => /\ sink'[Len(sink')] = Get(upd[i])
                   /\ Get(upd[i]).at <= now

\* C25 (amended): the timestamp of an update, Ok or Down, is the time taken
\* at the top of the poll cycle that built it, before the resolve and the
\* capture; it is kept unchanged until the update is sent and is never
\* later than the time of the send.
C25_StampAtCycleStart == [](C25_State) /\ [][C25_Step]_vars

\* an Ok update stamped at the start of its cycle is about to be sent into
\* a channel with room at a later time
C25_Witness ==
  /\ 0 \in LoopIds /\ pc[0] = "send"
  /\ Len(sink) < SinkCap
  /\ Get(upd[0]).status = "Ok"
  /\ Get(upd[0]).at < now

\* ------------------------------------------------------------ unknown host

\* the update of a loop whose host is not in the configuration
UnknownHostUpdate(u, i) ==
  /\ u.index = i
  /\ u.status = "Down"
  /\ u.capture = Nothing
  /\ u.error = "Unknown host"

C26_State ==
  \A i \in LoopIds : LoopHost(i) = Nothing =>
    /\ pc[i] \in {"start", "send", "wait", "done"}
    /\ holder # i
    /\ upd[i] # Nothing => UnknownHostUpdate(Get(upd[i]), i)

C26_Step ==
  \A i \in LoopIds : (LoopHost(i) = Nothing /\ mainpc # "stopped") =>
    /\ (AtTop(i) /\ pc'[i] # pc[i])
         => \/ pc'[i] = "send" /\ UnknownHostUpdate(Get(upd'[i]), i)
            \/ pc[i] = "wait" /\ pc'[i] = "done" /\ signal[i]
    /\ Sends(i) => /\ UnknownHostUpdate(sink'[Len(sink')], i)
                   /\ pc'[i] = (IF signal[i] THEN "done" ELSE "wait")
    /\ (pc[i] = "send" /\ pc'[i] # "send") => Sends(i)
    /\ pc[i] = "done" => pc'[i] = "done"

\* C26: a loop whose pane names a host that is not configured builds a Down
\* update with the unknown-host error at the top of every cycle, sends it,
\* and goes through the same wait as any other loop; it never takes the
\* resolver lock, probes or captures, and it ends only by receiving the
\* shutdown signal.
C26_UnknownHost == [](C26_State) /\ [][C26_Step]_vars

\* such a loop is sending the update of a later cycle while an earlier one
\* of its updates is still in the channel
C26_Witness ==
  \E i \in LoopIds :
    /\ LoopHost(i) = Nothing
    /\ pc[i] = "send"
    /\ emitted[i] # << >>
    /\ UnknownHostUpdate(Head(emitted[i]), i)

\* ---------------------------------------------------- index out of range

\* the update at the head of the channel is for no pane of the store
StaleHead == sink # << >> /\ Head(sink).index \notin DOMAIN panes

\* the consumer takes the update at the head of the channel in this step
Receives == sink # << >> /\ sink' = Tail(sink)

C27_State ==
  \A u \in UpdatesAt(now) :
    u.index \notin DOMAIN panes => apply_update(panes, u) = panes

C27_Step ==
  (StaleHead /\ Receives) => /\ panes' = panes
                             /\ mainpc' = mainpc

\* C27: apply_update called with an index that is not in the pane list, as
\* for an update left in the channel by the pollers of the previous
\* configuration, changes no pane, and the consumer carries on.
C27_StaleIndex == [](C27_State) /\ [][C27_Step]_vars

\* after a reload to fewer panes the consumer is about to apply an update
\* of a pane that no longer exists, to a store whose first pane is Ok
C27_Witness ==
  /\ mainpc = "select"
  /\ StaleHead
  /\ NumPanes >= 1
  /\ panes[0].status = "Ok"

\* ------------------------------------------- capture parsing (tmux.rs, ssh.rs)

\* bytes of a remote output: tab, line feed, carriage return, space, a letter
OutBytes == {9, 10, 13, 32, 97}

\* char::is_whitespace on ASCII
IsSpace(b) == b \in {9, 10, 11, 12, 13, 32}

RECURSIVE trim_end_newlines(_)
RECURSIVE trim_end(_)
\* variant: only line feeds at the end are removed
trim_end_newlines(s) ==
  IF s = << >> \/ s[Len(s)] # 10 THEN s
  ELSE trim_end_newlines(SubSeq(s, 1, Len(s) - 1))
\* str::trim_end (ssh.rs:92): all trailing whitespace is removed
trim_end(s) ==
  IF s = << >> \/ ~IsSpace(s[Len(s)]) THEN s
  ELSE trim_end(SubSeq(s, 1, Len(s) - 1))

\* str::split on one byte: the fields between the separators, at least one
RECURSIVE SplitFrom(_, _, _, _)
SplitFrom(s, sep, k, cur) ==
  IF k > Len(s) THEN << cur >>
  ELSE IF s[k] = sep THEN << cur >> \o SplitFrom(s, sep, k + 1, << >>)
  ELSE SplitFrom(s, sep, k + 1, Append(cur, s[k]))

str_split(s, sep) == SplitFrom(s, sep, 1, << >>)

\* str::lines: the pieces between line feeds, without an empty piece after
\* the last line feed; a carriage return right before a line feed belongs
\* to the line ending
str_lines(s) ==
  LET parts == str_split(s, 10)
      n == Len(parts)
      kept == IF parts[n] = << >> THEN n - 1 ELSE n
      Line(k) == IF k < n /\ parts[k] # << >> /\ parts[k][Len(parts[k])] = 13
                 THEN SubSeq(parts[k], 1, Len(parts[k]) - 1)
                 ELSE parts[k]
  IN [k \in 1 .. kept |-> Line(k)]

\* tmux.rs:66-78
parse_capture(output) ==
  LET lines == str_lines(output)
      header == IF lines = << >> THEN << >> ELSE lines[1]
      header_parts == str_split(header, 9)
  IN [command |-> header_parts[1],
      title |-> IF Len(header_parts) >= 2 THEN header_parts[2] ELSE << >>,
      lines |-> IF lines = << >> THEN << >> ELSE Tail(lines)]

\* what capture_pane makes of the bytes the remote command wrote
\* (ssh.rs:92, tmux.rs:45)
capture_of(stdout) == parse_capture(trim_end(stdout))

\* capture_pane returns for some remote output; the output and the capture
\* are recorded
ParseCapture ==
  /\ ret = Nothing
  /\ \E out \in SeqsUpTo(OutBytes, MaxOut) :
       /\ arg' = Some(out)
       /\ ret' = Some(capture_of(out))
  /\ UNCHANGED << now, reach, hosts, tracked, screen, sink, panes, emitted, stale, setup >>
  /\ UNCHANGED_loops /\ UNCHANGED_resolver /\ UNCHANGED_main

SpecCapture == InitActivity /\ [][ParseCapture]_vars

\* every carriage return + line feed read as a line feed
RECURSIVE DropCRLF(_, _)
DropCRLF(s, k) ==
  IF k > Len(s) THEN << >>
  ELSE IF s[k] = 13 /\ k < Len(s) /\ s[k + 1] = 10
       THEN << 10 >> \o DropCRLF(s, k + 2)
       ELSE << s[k] >> \o DropCRLF(s, k + 1)

\* the part of s before the first byte b
RECURSIVE PrefixUpTo(_, _, _)
PrefixUpTo(s, b, k) ==
  IF k > Len(s) \/ s[k] = b THEN << >>
  ELSE << s[k] >> \o PrefixUpTo(s, b, k + 1)

\* the part of s after the first byte b, empty without one
AfterFirst(s, b) ==
  LET n == Len(PrefixUpTo(s, b, 1)) IN
  IF n >= Len(s) THEN << >> ELSE SubSeq(s, n + 2, Len(s))

\* the lines written one after the other, a line feed before each
RECURSIVE Rejoin(_, _)
Rejoin(lines, k) ==
  IF k > Len(lines) THEN << >>
  ELSE << 10 >> \o lines[k] \o Rejoin(lines, k + 1)

\* the output without one line terminator at its end
StripTerminator(s) ==
  IF s # << >> /\ s[Len(s)] = 10
  THEN IF Len(s) >= 2 /\ s[Len(s) - 1] = 13
       THEN SubSeq(s, 1, Len(s) - 2)
       ELSE SubSeq(s, 1, Len(s) - 1)
  ELSE s

\* the capture c is text, line by line: its command and title are the first
\* two tab-separated fields of the first line of text and its lines are the
\* lines that follow
CaptureOfText(c, text) ==
  LET t == DropCRLF(text, 1)
      header == PrefixUpTo(t, 10, 1)
  IN /\ c.command = PrefixUpTo(header, 9, 1)
     /\ c.title = PrefixUpTo(AfterFirst(header, 9), 9, 1)
     /\ t = header \o Rejoin(c.lines, 1)

\* C28 as stated: the capture is the whole output, line by line, with
\* nothing removed but a terminator at the end.
C28_Original ==
  ret # Nothing => CaptureOfText(Get(ret), StripTerminator(Get(arg)))

\* C28 (amended): the capture is the output without any whitespace at its
\* end, line by line: command and title are the first two tab-separated
\* fields of the first line, a missing one being empty, and the lines are
\* the lines that follow, in order, blank ones included; a carriage return
\* right before a line feed is not part of the line, and no capture ends
\* with a blank line or with a line that ends in whitespace.
C28_CaptureParsing ==
  ret # Nothing =>
    LET c == Get(ret) IN
    /\ CaptureOfText(c, trim_end(Get(arg)))
    /\ c.lines # << >> =>
         LET last == c.lines[Len(c.lines)] IN
         last # << >> /\ ~IsSpace(last[Len(last)])

\* the output has a blank line between two lines and whitespace at its end
C28_Witness ==
  /\ ret # Nothing
  /\ Len(Get(ret).lines) = 2
  /\ Get(ret).lines[1] = << >>
  /\ Get(arg)[Len(Get(arg))] = 32

\* ------------------------------------------------- list parsing (tmux.rs)

IsDigit(b) == b \in 48 .. 57

\* the digits of a u32, two 16-bit limbs, least significant first; None on
\* a byte that is no digit and on overflow
RECURSIVE ParseDigits(_, _, _)
ParseDigits(s, k, v) ==
  IF k > Len(s) THEN Some(v)
  ELSE IF ~IsDigit(s[k]) THEN Nothing
  ELSE LET lo == (v[1] * 10) + (s[k] - 48)
           hi == (v[2] * 10) + (lo \div Limb)
       IN IF hi >= Limb THEN Nothing
          ELSE ParseDigits(s, k + 1, << lo % Limb, hi >>)

\* val.parse::<u32>().ok(): an optional plus sign and at least one digit
parse_u32(s) ==
  LET digits == IF s # << >> /\ s[1] = 43 THEN Tail(s) ELSE s IN
  IF digits = << >> THEN Nothing ELSE ParseDigits(digits, 1, << 0, 0 >>)

\* parts.next().unwrap_or("") for the k-th field
FieldOr(parts, k) == IF k <= Len(parts) THEN parts[k] ELSE << >>

\* tmux.rs:83-103: the body of the loop of parse_pane_list for one line
PaneOfLine(line) ==
  LET parts == str_split(line, 9)
      window == IF Len(parts) < 2 THEN Nothing ELSE parse_u32(parts[2])
  IN IF parts[1] = << >> THEN Nothing
     ELSE IF window = Nothing THEN Nothing
     ELSE IF Len(parts) < 3 \/ parts[3] = << >> THEN Nothing
     ELSE Some([session |-> parts[1], window |-> Get(window),
                pane_id |-> parts[3], command |-> FieldOr(parts, 4),
                title |-> FieldOr(parts, 5)])

\* tmux.rs:112-126: the body of the loop of parse_window_list for one line
WindowOfLine(line) ==
  LET parts == str_split(line, 9)
      window == IF Len(parts) < 2 THEN Nothing ELSE parse_u32(parts[2])
  IN IF parts[1] = << >> THEN Nothing
     ELSE IF window = Nothing THEN Nothing
     ELSE Some([session |-> parts[1], window |-> Get(window),
                name |-> FieldOr(parts, 3)])

\* the entries pushed while the loop runs over the lines from the k-th on
RECURSIVE PanesFrom(_, _)
PanesFrom(lines, k) ==
  IF k > Len(lines) THEN << >>
  ELSE PaneOfLine(lines[k]) \o PanesFrom(lines, k + 1)

RECURSIVE WindowsFrom(_, _)
WindowsFrom(lines, k) ==
  IF k > Len(lines) THEN << >>
  ELSE WindowOfLine(lines[k]) \o WindowsFrom(lines, k + 1)

\* variant: one malformed line empties the result
parse_pane_list_strict(output) ==
  IF \E k \in 1 .. Len(str_lines(output)) :
       PaneOfLine(str_lines(output)[k]) = Nothing
  THEN << >>
  ELSE PanesFrom(str_lines(output), 1)

\* tmux.rs:80-107
parse_pane_list(output) == PanesFrom(str_lines(output), 1)

\* tmux.rs:109-129
parse_window_list(output) == WindowsFrom(str_lines(output), 1)

\* the fields a line is made of: a session name or none, a window index
\* (12, +1, x, 4294967296), a pane id or none, a command and a title
Sessions == {<< >>, << 115 >>}
WindowTexts == {<< 49, 50 >>, << 43, 49 >>, << 120 >>,
                << 52, 50, 57, 52, 57, 54, 55, 50, 57, 54 >>}
PaneIdTexts == {<< >>, << 37, 49 >>}

\* lines of one to five fields; those of four and five fields have a pane id
Rows ==
  { << s >> : s \in Sessions }
  \cup { << s, w >> : s \in Sessions, w \in WindowTexts }
  \cup { << s, w, p >> : s \in Sessions, w \in WindowTexts, p \in PaneIdTexts }
  \cup { << s, w, << 37, 49 >>, << 99 >> >> :
           s \in Sessions, w \in WindowTexts }
  \cup { << << 115 >>, w, << 37, 49 >>, << 99 >>, << 116 >> >> :
           w \in WindowTexts }

\* byte strings written one after the other with a separator between them
RECURSIVE JoinWith(_, _, _)
JoinWith(strs, sep, k) ==
  IF k > Len(strs) THEN << >>
  ELSE IF k = Len(strs) THEN strs[k]
  ELSE strs[k] \o << sep >> \o JoinWith(strs, sep, k + 1)

\* the text tmux prints for the rows: tabs between fields, one row a line
ListText(rows) ==
  JoinWith([k \in 1 .. Len(rows) |-> JoinWith(rows[k], 9, 1)], 10, 1)

\* both parsers are called on the text of up to MaxRows rows; the rows and
\* the results are recorded
ParseLists ==
  /\ ret = Nothing
  /\ \E rows \in SeqsUpTo(Rows, MaxRows) :
       /\ arg' = Some(rows)
       /\ ret' = Some([panes |-> parse_pane_list(ListText(rows)),
                       windows |-> parse_window_list(ListText(rows))])
  /\ UNCHANGED << now, reach, hosts, tracked, screen, sink, panes, emitted, stale, setup >>
  /\ UNCHANGED_loops /\ UNCHANGED_resolver /\ UNCHANGED_main

SpecLists == InitActivity /\ [][ParseLists]_vars

\* the value of a window index that is an unsigned 32-bit integer
Known(w) ==
  IF w = << 49, 50 >> THEN Some(<< 12, 0 >>)
  ELSE IF w = << 43, 49 >> THEN Some(<< 1, 0 >>)
  ELSE Nothing

HasWindow(row) == Len(row) >= 2 /\ row[1] # << >> /\ Known(row[2]) # Nothing
HasPane(row) == HasWindow(row) /\ Len(row) >= 3 /\ row[3] # << >>

\* the rows that satisfy a test, in their order
RECURSIVE Keep(_, _, _)
Keep(rows, Test(_), k) ==
  IF k > Len(rows) THEN << >>
  ELSE (IF Test(rows[k]) THEN << rows[k] >> ELSE << >>)
       \o Keep(rows, Test, k + 1)

PaneEntry(row) ==
  [session |-> row[1], window |-> Get(Known(row[2])), pane_id |-> row[3],
   command |-> IF Len(row) >= 4 THEN row[4] ELSE << >>,
   title |-> IF Len(row) >= 5 THEN row[5] ELSE << >>]

WindowEntry(row) ==
  [session |-> row[1], window |-> Get(Known(row[2])),
   name |-> IF Len(row) >= 3 THEN row[3] ELSE << >>]

\* C29: parse_pane_list and parse_window_list return one entry, in input
\* order, for each line with a non-empty session, a window index that
\* parses as u32 and, for panes, a non-empty pane id; fields that are
\* missing after those are empty strings; every other line is left out
\* without affecting the lines around it, and the call always returns.
C29_ListParsing ==
  ret # Nothing =>
    LET good == Keep(Get(arg), HasPane, 1)
        wins == Keep(Get(arg), HasWindow, 1)
    IN /\ Get(ret).panes = [k \in 1 .. Len(good) |-> PaneEntry(good[k])]
       /\ Get(ret).windows = [k \in 1 .. Len(wins) |-> WindowEntry(wins[k])]

\* a line without a pane id is followed by a complete line with a signed
\* window index: one pane and two windows are returned
C29_Witness ==
  /\ ret # Nothing
  /\ Len(Get(arg)) = 2
  /\ ~HasPane(Get(arg)[1]) /\ HasWindow(Get(arg)[1])
  /\ HasPane(Get(arg)[2]) /\ Get(arg)[2][2] = << 43, 49 >>
  /\ Len(Get(ret).panes) = 1
  /\ Len(Get(ret).windows) = 2

\* ------------------------------------------------- reload and the full sink

\* C30: whenever reload_config has called stop(), stop() returns (and the
\* new pollers are started): no loop stays blocked on the full channel
\* while stop() awaits it.
C30_ReloadReturns == Stopping ~> StopReturned

\* stop() awaits a loop that is blocked sending into the full channel,
\* which only the consumer, now inside stop(), could drain
C30_Witness ==
  /\ Stopping
  /\ Blocked(joinIdx)

\* ------------------------------------------- updates across a reload

\* C31: every update applied to a pane of the store was sent by a loop of
\* the pollers that belong to that store, never by a loop of the pollers
\* that a reload has replaced.
C31_NoMisattribution ==
  [][(Receives /\ Head(sink).index \in DOMAIN panes) => stale = 0]_vars

\* after a reload the consumer is about to apply, to a pane of the new
\* store, an update that a loop of the replaced pollers sent for a pane on
\* another host
C31_Witness ==
  /\ mainpc = "select"
  /\ stale > 0
  /\ Head(sink).index \in DOMAIN panes
  /\ Head(sink).error = "Unknown host"
  /\ FindHost(hosts, tracked[Head(sink).index]) # Nothing

\* ------------------------------------------- resolved targets and reloads

\* the candidate targets that the configuration declares for caller c's host
Declared(c) ==
  LET h == FindHost(hosts, HostNameOf(c)) IN
  IF h = Nothing THEN {} ELSE TargetsFrom(Get(h).targets, 1)

\* C32: a target that resolve_target returns for a host is one of the
\* candidate targets that the current configuration declares for that
\* host, also after a reload that changed the host's list.
C32_TargetDeclared ==
  \A c \in Callers :
    rres[c].kind = "ok" => rres[c].target \in Declared(c)

\* after a reload that dropped address a from host h1, a loop for h1 has
\* got a from the resolver
C32_Witness ==
  \E i \in LoopIds :
    /\ pc[i] = "capture"
    /\ tracked[i] = "h1"
    /\ hosts = HostsB
    /\ rres[i] = OkResult("a")

\* ------------------------------------------------------------------ C33

\* a pane of a host whose addresses come and go and whose content may
\* vanish, while time passes
InitFailover ==
  /\ InitWith({SameHost(1)})
  /\ reach = UsedTargets(hosts, tracked)

NextFailover ==
  \/ \E i \in LoopIds : LoopStep(i)
  \/ RecvUpdate
  \/ Tick
  \/ ReachChange
  \/ Vanish(0)

SpecFailover == InitFailover /\ [][NextFailover]_vars

\* loop i enters resolve_target while its host's entry is still fresh
HitsCache(i) ==
  /\ pc[i] = "lock" /\ pc'[i] # "lock"
  /\ CacheHit(Get(LoopHost(i)))

C33_Step ==
  /\ \A i \in LoopIds :
       (pc[i] = "capture" /\ pc'[i] = "send") => cache' = cache
  /\ \A i \in LoopIds :
       HitsCache(i) =>
         /\ rres'[i] = OkResult(Get(cache[tracked[i]]).target)
         /\ pc'[i] = "capture"
         /\ rlog'[i] = << >>
         /\ cache' = cache
  /\ \A h \in HostNames :
       (cache[h] # Nothing /\ cache'[h] # cache[h])
         => ~EntryFresh(Get(cache[h]))

\* C33: a capture, failed or not, leaves the resolver cache as it was; a
\* poll that finds its host's entry younger than the TTL gets the cached
\* target back without any probe; and an entry is only ever replaced once
\* it has expired, so another candidate is used only after expiry.
C33_NoFailoverWithinTtl == [][C33_Step]_vars

\* after a failed capture was shown, the loop holds the cached target
\* again, unprobed, though it is unreachable and the other candidate is not
C33_Witness ==
  /\ panes[0].status = "Down" /\ panes[0].error = "capture-pane failed"
  /\ pc[0] = "capture" /\ rres[0] = OkResult("a") /\ rlog[0] = << >>
  /\ "a" \notin reach /\ "b" \in reach
  /\ screen[0] = Nothing

\* ------------------------------------------------------------------ C34

\* C34: in every state reached by applying the loops' updates and by the
\* staleness sweep, a pane carries an error message exactly when its
\* status is Down.
C34_ErrorIffDown ==
  \A i \in DOMAIN panes : (panes[i].error # None) <=> (panes[i].status = "Down")

\* a pane that was Ok is Down with its error, old enough for the sweep to
\* have passed over it, and the next update will clear the error
C34_Witness ==
  /\ panes[0].status = "Down" /\ panes[0].error # None
  /\ panes[0].last_hash # Nothing
  /\ now - Get(panes[0].last_update) > StaleAfter
  /\ sink # << >> /\ Head(sink).status = "Ok" /\ Head(sink).error = None

\* ------------------------------------------------------------------ C35

C35_State ==
  \A i \in DOMAIN panes :
    panes[i].status = "Ok" =>
      /\ panes[i].last_capture # Nothing
      /\ panes[i].last_hash # Nothing
      /\ panes[i].last_update # Nothing
      /\ panes[i].last_change # Nothing

\* a step that takes nothing from the channel (the sweep among them)
\* leaves a pane without a capture not Ok
C35_Step ==
  sink' = sink =>
    \A i \in DOMAIN panes :
      panes[i].last_capture = Nothing => panes'[i].status # "Ok"

\* C35: a pane whose status is Ok has a capture, a fingerprint, a
\* last_update and a last_change; the sweep never makes a pane Ok that has
\* never been captured.
C35_OkHasCapture == []C35_State /\ [][C35_Step]_vars

\* an Ok pane some time after its last update, whose content had stayed
\* the same since an earlier capture, with nothing left to apply
C35_Witness ==
  /\ panes[0].status = "Ok" /\ sink = << >>
  /\ Get(panes[0].last_update) < now
  /\ Get(panes[0].last_change) < Get(panes[0].last_update)

\* ------------------------------------------------------------------ C36

\* C36: in every state, last_change is set exactly when a fingerprint and
\* a capture are stored, and whenever last_change is set, last_update is
\* set too and last_change is not later than last_update.
C36_Timestamps ==
  \A i \in DOMAIN panes :
    /\ (panes[i].last_change # Nothing) <=>
         (panes[i].last_hash # Nothing /\ panes[i].last_capture # Nothing)
    /\ (panes[i].last_hash # Nothing) <=> (panes[i].last_capture # Nothing)
    /\ panes[i].last_change # Nothing =>
         /\ panes[i].last_update # Nothing
         /\ Get(panes[i].last_change) <= Get(panes[i].last_update)

\* a pane that only failures have updated has a last_update and nothing
\* else, while its first capture waits in the channel
C36_Witness ==
  /\ panes[0].last_update # Nothing /\ panes[0].last_change = Nothing
  /\ panes[0].last_hash = Nothing /\ panes[0].last_capture = Nothing
  /\ sink # << >> /\ Head(sink).capture # Nothing
  /\ Head(sink).at > Get(panes[0].last_update)

\* ------------------------------------------------------------------ C37

\* two panes of one reachable host polled while time passes; the
\* first pane goes away and comes back
InitClock ==
  /\ InitWith({SameHost(2)})
  /\ reach = UsedTargets(hosts, tracked)

NextClock ==
  \/ \E i \in LoopIds : LoopStep(i)
  \/ RecvUpdate
  \/ Tick
  \/ Vanish(0)

SpecClock == InitClock /\ [][NextClock]_vars

C37_Step ==
  \A i \in DOMAIN panes :
    panes[i].last_update # Nothing =>
      /\ panes'[i].last_update # Nothing
      /\ Get(panes'[i].last_update) >= Get(panes[i].last_update)

\* C37: for each pane last_update never decreases, however the polling
\* loops, the channel and the consumer interleave.
C37_MonotoneUpdates == [][C37_Step]_vars

\* a later update of a pane waits in the channel behind an update of
\* another pane that was stamped before it but sent after the first
\* pane's previous update was applied
C37_Witness ==
  /\ Len(sink) = 2
  /\ panes[0].last_update # Nothing
  /\ sink[1].index = 1 /\ sink[2].index = 0
  /\ sink[1].at < Get(panes[0].last_update)
  /\ sink[2].at > Get(panes[0].last_update)

\* ------------------------------------------------------------------ C38

\* time passes by one refresh interval
Elapse ==
  /\ now + Refresh <= MaxTime
  /\ now' = now + Refresh
  /\ UNCHANGED << reach, hosts, tracked, screen, sink, panes, emitted, stale, setup, arg,
                  ret >>
  /\ UNCHANGED_loops /\ UNCHANGED_resolver /\ UNCHANGED_main

\* one pane polled and swept while time passes in refresh intervals
NextSweep ==
  \/ \E i \in LoopIds : LoopStep(i)
  \/ RecvUpdate
  \/ TickSweep
  \/ Elapse

SpecSweep == InitStore /\ [][NextSweep]_vars

C38_Step ==
  sink' = sink =>
    \A i \in DOMAIN panes :
      panes[i].status = "Stale" => panes'[i].status = "Stale"

\* C38: a Stale pane stays Stale through every step that applies no
\* update, the sweep included, however much time passes: only an
\* apply_update of the pane ends it.
C38_StaleUntilUpdate == [][C38_Step]_vars

\* a pane that was updated is Stale and has been past the threshold for
\* more than a refresh interval: sweeps found it stale at two instants
C38_Witness ==
  /\ panes[0].status = "Stale" /\ panes[0].last_update # Nothing
  /\ now - Get(panes[0].last_update) > StaleAfter + Refresh
  /\ sink = << >> /\ pc[0] = "wait"

\* ------------------------------------------------------------------ C39

\* FocusMove (main.rs:136-140 and the key table of handle_event)
Directions == {"Next", "Left", "Right", "Up", "Down"}

\* a.saturating_sub(b) on usize
SatSub(a, b) == IF a < b THEN 0 ELSE a - b

\* a.min(b)
Least(a, b) == IF a < b THEN a ELSE b

\* (count as f64).sqrt().ceil() as usize: the least c with c * c >= count
RECURSIVE CeilSqrtFrom(_, _)
CeilSqrtFrom(count, c) ==
  IF c * c >= count THEN c ELSE CeilSqrtFrom(count, c + 1)

\* main.rs:171-175
grid_dimensions(count) ==
  LET cols == CeilSqrtFrom(count, 0)
  IN [rows |-> (count + cols - 1) \div cols, cols |-> cols]

\* the cell a direction leads to (main.rs:156-162)
Target(row, col, g, direction) ==
  CASE direction = "Left"  -> [row |-> row, col |-> SatSub(col, 1)]
    [] direction = "Right" -> [row |-> row,
                               col |-> Least(col + 1, SatSub(g.cols, 1))]
    [] direction = "Up"    -> [row |-> SatSub(row, 1), col |-> col]
    [] direction = "Down"  -> [row |-> Least(row + 1, SatSub(g.rows, 1)),
                               col |-> col]
    [] OTHER               -> [row |-> row, col |-> col]

\* variant: a cell past the last pane is not brought back
move_focus_unclamped(f, count, direction) ==
  IF count = 0 THEN f
  ELSE IF direction = "Next" THEN (f + 1) % count
  ELSE LET g == grid_dimensions(count)
           cell == Target(f \div g.cols, f % g.cols, g, direction)
       IN (cell.row * g.cols) + cell.col

\* main.rs:142-169: the new value of state.focused
move_focus(f, count, direction) ==
  IF count = 0 THEN f
  ELSE IF direction = "Next" THEN (f + 1) % count
  ELSE LET g == grid_dimensions(count)
           cell == Target(f \div g.cols, f % g.cols, g, direction)
           index == (cell.row * g.cols) + cell.col
       IN IF index >= count THEN count - 1 ELSE index

\* a key that moves the focus (main.rs:126-130); the key is remembered
KeyMove(direction) ==
  /\ mainpc = "select"
  /\ focused' = move_focus(focused, Cardinality(DOMAIN panes), direction)
  /\ arg' = Some([key |-> direction])
  /\ UNCHANGED << mainpc, joinIdx, sink, panes, emitted, stale, setup, now, reach,
                  hosts, tracked, screen, ret >>
  /\ UNCHANGED_loops /\ UNCHANGED_resolver

\* r or e between two polls: reload_config as the store sees it, a new
\* AppState for the n panes selected (main.rs:192-200)
Reselect(n) ==
  /\ mainpc = "select"
  /\ Restarted(SameHost(n))
  /\ arg' = Some([key |-> "r"])
  /\ UNCHANGED << mainpc, joinIdx, sink, emitted, stale, setup, now, reach, hosts,
                  cache, holder, ret >>

\* the dashboard started with any number of panes up to MaxGrid
InitFocus ==
  /\ \E n \in 0 .. MaxGrid : InitWith({SameHost(n)})
  /\ reach = {}

NextFocus ==
  \/ \E direction \in Directions : KeyMove(direction)
  \/ \E n \in 0 .. MaxGrid : Reselect(n)

SpecFocus == InitFocus /\ [][NextFocus]_vars

\* the step is the handling of the key
Pressed(key) ==
  /\ arg' = Some([key |-> key])
  /\ arg' # arg \/ focused' # focused

C39_State ==
  /\ focused >= 0
  /\ DOMAIN panes # {} => focused < Cardinality(DOMAIN panes)

C39_Step ==
  LET count == Cardinality(DOMAIN panes) IN
  /\ Pressed("Next") =>
       focused' = IF count = 0 THEN focused
                  ELSE IF focused = count - 1 THEN 0 ELSE focused + 1
  /\ \A direction \in Directions :
       (Pressed(direction) /\ count = 0) => focused' = focused

\* C39: with at least one pane the focused index is below the number of
\* panes after any moves and reloads; Tab goes to the next pane and from
\* the last one to index 0; with no pane a move leaves the focus as it is.
C39_FocusInRange == []C39_State /\ [][C39_Step]_vars

\* Down was pressed in the last full column of a grid whose last row is
\* shorter: the cell below does not exist and the focus is on the last pane
C39_Witness ==
  /\ arg = Some([key |-> "Down"])
  /\ Cardinality(DOMAIN panes) = 5 /\ focused = 4

\* ------------------------------------------------------------------ C40

UNCHANGED_dashboard ==
  UNCHANGED << now, reach, hosts, tracked, cache, holder, pc, at, rpos, rlog,
               rres, upd, signal, sink, mainpc, joinIdx, postStop, focused,
               screen, panes, emitted, stale, arg, ret >>

\* preview tasks running plus preview responses not yet handled
RECURSIVE CountPreviews(_)
CountPreviews(q) ==
  IF q = << >> THEN 0
  ELSE (IF Head(q).kind \in {"PreviewLoaded", "PreviewError"} THEN 1 ELSE 0)
       + CountPreviews(Tail(q))

RECURSIVE SumTasks(_, _)
SumTasks(tasks, ks) ==
  IF ks = {} THEN 0
  ELSE LET k == CHOOSE x \in ks : TRUE
       IN tasks[k] + SumTasks(tasks, ks \ {k})

Pending == SumTasks(setup.tasks, PreviewKeys) + CountPreviews(setup.msgs)

\* setup.rs:894-933: the host under the cursor is loaded unless it is
\* loading or loaded already
EnsureHostLoaded(h) ==
  /\ setup.host_data[h] \in {"absent", "error"}
  /\ setup' = [setup EXCEPT !.host_data[h] = "loading",
                            !.loads = @ \cup {h}]
  /\ UNCHANGED_dashboard

\* setup.rs:920-932: the task that loads a host sends its result
LoadDone(h) ==
  /\ h \in setup.loads
  /\ \E kind \in {"HostLoaded", "HostError"} :
       setup' = [setup EXCEPT
                   !.loads = @ \ {h},
                   !.msgs = Append(@, [kind |-> kind, key |-> h, body |-> ""])]
  /\ UNCHANGED_dashboard

\* setup.rs:955-1004 with the cursor on pane k: nothing happens when the
\* host's panes are not loaded or k is the key already requested
RequestPreview(k) ==
  /\ setup.host_data[KeyHost(k)] = "loaded"
  /\ setup.preview_key # Some(k)
  /\ Pending < MaxPending
  /\ setup' = [setup EXCEPT !.preview_key = Some(k),
                            !.preview_loading = TRUE,
                            !.preview = Nothing,
                            !.tasks[k] = @ + 1]
  /\ UNCHANGED_dashboard

\* setup.rs:989-1003: a preview task sends what it captured, or the error
PreviewDone(k) ==
  /\ setup.tasks[k] > 0
  /\ \E msg \in {[kind |-> "PreviewLoaded", key |-> k, body |-> o] : o \in Outputs}
           \cup {[kind |-> "PreviewError", key |-> k, body |-> e] : e \in Failures} :
       setup' = [setup EXCEPT !.tasks[k] = @ - 1,
                              !.msgs = Append(@, msg)]
  /\ UNCHANGED_dashboard

\* setup.rs:170-201: every message waiting in the channel is handled
HandleMessages ==
  /\ setup.msgs # << >>
  /\ setup' = [handle_messages(setup, setup.msgs) EXCEPT !.msgs = << >>]
  /\ UNCHANGED_dashboard

InitSetup ==
  /\ InitWith(TrackedOfLen(0))
  /\ reach = {}

NextSetup ==
  \/ \E h \in SetupHosts : EnsureHostLoaded(h)
  \/ \E h \in SetupHosts : LoadDone(h)
  \/ \E k \in PreviewKeys : RequestPreview(k)
  \/ \E k \in PreviewKeys : PreviewDone(k)
  \/ HandleMessages

SpecSetup == InitSetup /\ [][NextSetup]_vars

\* the positions in the channel of the responses for the requested key
Matching ==
  { n \in DOMAIN setup.msgs :
      /\ setup.msgs[n].kind \in {"PreviewLoaded", "PreviewError"}
      /\ setup.preview_key = Some(setup.msgs[n].key) }

Last(S) == CHOOSE n \in S : \A m \in S : m <= n

C40_Step ==
  (setup.msgs # << >> /\ setup'.msgs = << >>) =>
    /\ setup'.preview_key = setup.preview_key
    /\ IF Matching = {}
         THEN /\ setup'.preview = setup.preview
              /\ setup'.preview_loading = setup.preview_loading
         ELSE /\ setup'.preview = Some(PreviewText(setup.msgs[Last(Matching)]))
              /\ setup'.preview_loading = FALSE

\* C40: handling the waiting messages changes the preview and clears the
\* loading flag only through a PreviewLoaded or PreviewError whose key is
\* the key requested last; responses with any other key, in whatever order
\* they arrive, leave preview and flag as they were.
C40_PreviewMatching == [][C40_Step]_vars

\* the preview of k1, requested last, is shown, and the responses for k3
\* and k2, requested before it, wait in the channel in the reverse of the
\* order of their requests
C40_Witness ==
  /\ setup.preview_key = Some("k1")
  /\ setup.preview = Some(<< "o1" >>) /\ ~setup.preview_loading
  /\ Len(setup.msgs) = 2
  /\ setup.msgs[1].key = "k3" /\ setup.msgs[1].kind = "PreviewError"
  /\ setup.msgs[2].key = "k2" /\ setup.msgs[2].kind = "PreviewLoaded"

====
